---- MODULE Spec2Model ----
(***************************************************************************)
(* Document extraction, classification, merge, mapping and profile         *)
(* reconciliation of the immigration-document pipeline                     *)
(* (backend/app/services).  Texts are TLA+ strings handled character by    *)
(* character; the regular expressions of the source are data for a small   *)
(* backtracking matcher with Python's leftmost/greedy semantics.           *)
(***************************************************************************)
EXTENDS Integers, Sequences, FiniteSets, TLC

(***************************************************************************)
(* State                                                                   *)
(***************************************************************************)
VARIABLES
    document_keywords,  \* DocumentExtractionService.document_keywords
    op,                 \* the service operation called last
    arg,                \* its arguments
    ret,                \* what it returned
    memo,               \* an earlier _detect_document_type call: <<text, type>>
    ai_client,          \* AIDocumentExtractionService.ai_client: the provider, or "none"
    profile,            \* the user's ImmigrationProfile row
    documents,          \* the ids of the committed DocumentMetadata rows
    storage,            \* the keys the storage service holds
    uploads,            \* upload_document calls so far
    requests,           \* the upload_document calls in flight, per request slot
    utcnow,             \* datetime.utcnow(), in minutes
    issued              \* the OAuth state tokens handed out: when, and how often presented

(***************************************************************************)
(* Calls.  A call of a method of one of the services (self.<method>) or of *)
(* a library function is resolved by name, as Python resolves it on the    *)
(* object at run time.  Call is the table of the callable functions; it is *)
(* defined after them.                                                     *)
(***************************************************************************)
RECURSIVE Call(_, _)

(***************************************************************************)
(* Characters and Python string methods                                    *)
(***************************************************************************)
Digits == {"0", "1", "2", "3", "4", "5", "6", "7", "8", "9"}

UpperAZ == {"A", "B", "C", "D", "E", "F", "G", "H", "I", "J", "K", "L", "M",
            "N", "O", "P", "Q", "R", "S", "T", "U", "V", "W", "X", "Y", "Z"}

LowerAZ == {"a", "b", "c", "d", "e", "f", "g", "h", "i", "j", "k", "l", "m",
            "n", "o", "p", "q", "r", "s", "t", "u", "v", "w", "x", "y", "z"}

\* \s of the re module
Space == {" ", "\n", "\t", "\r", "\f"}

\* \w of the re module (ASCII part)
WordChars == Digits \cup UpperAZ \cup LowerAZ \cup {"_"}

UpperSeq == "ABCDEFGHIJKLMNOPQRSTUVWXYZ"

LowerSeq == "abcdefghijklmnopqrstuvwxyz"

CharAt(s, i) == SubSeq(s, i, i)

\* position of the one-character string c in the alphabet abc, 0 when absent
AlphaIndex(abc, c) ==
    LET hits == {i \in 1..Len(abc) : CharAt(abc, i) = c}
    IN  IF hits = {} THEN 0 ELSE CHOOSE i \in hits : TRUE

ToLower == [c \in UpperAZ |-> CharAt(LowerSeq, AlphaIndex(UpperSeq, c))]

ToUpper == [c \in LowerAZ |-> CharAt(UpperSeq, AlphaIndex(LowerSeq, c))]

LowerChar(c) == IF c \in UpperAZ THEN ToLower[c] ELSE c

UpperChar(c) == IF c \in LowerAZ THEN ToUpper[c] ELSE c

RECURSIVE Join(_, _, _)
\* the concatenation of the strings parts[lo], ..., parts[hi]
Join(parts, lo, hi) ==
    IF lo > hi THEN ""
    ELSE IF lo = hi THEN parts[lo]
    ELSE Join(parts, lo, (lo + hi) \div 2) \o Join(parts, ((lo + hi) \div 2) + 1, hi)

\* str.lower()
StrLower(s) == Join([i \in 1..Len(s) |-> LowerChar(CharAt(s, i))], 1, Len(s))

\* str.upper()
StrUpper(s) == Join([i \in 1..Len(s) |-> UpperChar(CharAt(s, i))], 1, Len(s))

\* Python's `kw in s` for strings
StrContains(s, kw) ==
    \E i \in 1..(Len(s) - Len(kw) + 1) : SubSeq(s, i, i + Len(kw) - 1) = kw

\* str.isdigit()
StrIsDigit(s) ==
    /\ s # ""
    /\ \A i \in 1..Len(s) : CharAt(s, i) \in Digits

\* str.endswith(suffix)
StrEndsWith(s, suffix) ==
    /\ Len(s) >= Len(suffix)
    /\ SubSeq(s, Len(s) - Len(suffix) + 1, Len(s)) = suffix

\* str.strip()
StrStrip(s) ==
    LET keep == {i \in 1..Len(s) : CharAt(s, i) \notin Space}
    IN  IF keep = {} THEN ""
        ELSE SubSeq(s, CHOOSE i \in keep : \A j \in keep : i <= j,
                       CHOOSE i \in keep : \A j \in keep : i >= j)

\* re.sub(r'\s+', ' ', s): a run of blanks becomes one space
CollapseSpace(s) ==
    Join([i \in 1..Len(s) |->
            IF CharAt(s, i) \notin Space THEN CharAt(s, i)
            ELSE IF i > 1 /\ CharAt(s, i - 1) \in Space THEN "" ELSE " "], 1, Len(s))

DigitVal(c) == AlphaIndex("0123456789", c) - 1

RECURSIVE StrToInt(_)
\* int(s) for a string of decimal digits
StrToInt(s) ==
    IF s = "" THEN 0
    ELSE StrToInt(SubSeq(s, 1, Len(s) - 1)) * 10 + DigitVal(CharAt(s, Len(s)))

RECURSIVE ZeroPad(_, _)
\* the decimal digits of n >= 0, zero-filled on the left to width w
ZeroPad(n, w) ==
    IF w = 0 THEN ""
    ELSE ZeroPad(n \div 10, w - 1) \o CharAt("0123456789", (n % 10) + 1)

(***************************************************************************)
(* Regular expressions: a pattern is a sequence of items                   *)
(***************************************************************************)
\* a character class repeated between lo and hi times, greedily
Rep(S, lo, hi) ==
    [k |-> "set", set |-> S, neg |-> FALSE, lo |-> lo, hi |-> hi, inf |-> FALSE]

One(S) == Rep(S, 1, 1)

Opt(S) == Rep(S, 0, 1)

\* S+
Plus(S) ==
    [k |-> "set", set |-> S, neg |-> FALSE, lo |-> 1, hi |-> 1, inf |-> TRUE]

\* S*
Star(S) ==
    [k |-> "set", set |-> S, neg |-> FALSE, lo |-> 0, hi |-> 0, inf |-> TRUE]

\* [^S]*
NotStar(S) ==
    [k |-> "set", set |-> S, neg |-> TRUE, lo |-> 0, hi |-> 0, inf |-> TRUE]

\* a literal string
Lit(s) == [i \in 1..Len(s) |-> One({CharAt(s, i)})]

\* a|b|c, each alternative a pattern; tried left to right
Alt(alts) == [k |-> "alt", alts |-> alts]

\* ( and ) of capture group g
Open(g) == [k |-> "open", g |-> g]

Close(g) == [k |-> "close", g |-> g]

\* \b
WordB == [k |-> "wb"]

\* (pattern) as capture group g
Group(g, re) == <<Open(g)>> \o re \o <<Close(g)>>

NoMatch == [ok |-> FALSE, start |-> 0, end |-> 0, caps |-> [g \in 1..3 |-> <<0, 0>>]]

\* does character c belong to the class of item it (ic: re.IGNORECASE)
ClassHas(it, c, ic) ==
    LET member ==
            \/ c \in it.set
            \/ ic /\ (LowerChar(c) \in it.set \/ UpperChar(c) \in it.set)
    IN  IF it.neg THEN ~member ELSE member

\* the least of the positions S, or none when there is no position
FirstOf(S, none) == IF S = {} THEN none ELSE CHOOSE i \in S : \A j \in S : i <= j

\* number of consecutive characters of s from pos on that item it can take
RunLength(it, s, pos, ic) ==
    LET last == IF it.inf \/ pos + it.hi - 1 > Len(s) THEN Len(s) ELSE pos + it.hi - 1
    IN  FirstOf({i \in pos..last : ~ClassHas(it, CharAt(s, i), ic)}, last + 1) - pos

IsWordAt(s, i) == i >= 1 /\ i <= Len(s) /\ CharAt(s, i) \in WordChars

RECURSIVE ReMatch(_, _, _, _, _)
RECURSIVE ReTryRep(_, _, _, _, _, _, _)
RECURSIVE ReTryAlt(_, _, _, _, _, _, _)

\* match pattern re at position pos of s; the first success in the order
\* of a backtracking matcher (greedy repeats, alternatives left to right)
ReMatch(re, s, pos, ic, caps) ==
    IF re = <<>> THEN [ok |-> TRUE, start |-> 0, end |-> pos, caps |-> caps]
    ELSE LET it == Head(re)
             rest == Tail(re)
         IN  CASE it.k = "open" ->
                    ReMatch(rest, s, pos, ic, [caps EXCEPT ![it.g] = <<pos, pos>>])
               [] it.k = "close" ->
                    ReMatch(rest, s, pos, ic, [caps EXCEPT ![it.g] = <<caps[it.g][1], pos>>])
               [] it.k = "wb" ->
                    IF IsWordAt(s, pos - 1) # IsWordAt(s, pos)
                    THEN ReMatch(rest, s, pos, ic, caps) ELSE NoMatch
               [] it.k = "alt" -> ReTryAlt(it.alts, 1, rest, s, pos, ic, caps)
               [] it.k = "set" ->
                    IF it.lo = 1 /\ it.hi = 1 /\ ~it.inf
                    THEN IF pos <= Len(s) /\ ClassHas(it, CharAt(s, pos), ic)
                         THEN ReMatch(rest, s, pos + 1, ic, caps) ELSE NoMatch
                    ELSE ReTryRep(it, RunLength(it, s, pos, ic), rest, s, pos, ic, caps)

\* item it taking run characters, then run-1, ... down to it.lo: the
\* longest take after which the rest matches
ReTryRep(it, run, rest, s, pos, ic, caps) ==
    LET tries == {[n |-> n, m |-> ReMatch(rest, s, pos + n, ic, caps)] : n \in it.lo..run}
        oks == {c \in tries : c.m.ok}
    IN  IF oks = {} THEN NoMatch
        ELSE (CHOOSE c \in oks : \A d \in oks : d.n <= c.n).m

\* alternative j of alts, then j+1, ...
ReTryAlt(alts, j, rest, s, pos, ic, caps) ==
    IF j > Len(alts) THEN NoMatch
    ELSE LET m == ReMatch(alts[j] \o rest, s, pos, ic, caps)
         IN  IF m.ok THEN m ELSE ReTryAlt(alts, j + 1, rest, s, pos, ic, caps)

\* can a match of re begin at position i: a cheap test on the first
\* character class of re, TRUE when re begins otherwise
CanStart(re, s, i, ic) ==
    LET firsts == {j \in 1..Len(re) : re[j].k # "open"}
        it == re[CHOOSE j \in firsts : \A k \in firsts : j <= k]
    IN  IF firsts = {} THEN TRUE
        ELSE IF it.k = "set" /\ it.lo >= 1
             THEN i <= Len(s) /\ ClassHas(it, CharAt(s, i), ic)
             ELSE TRUE

\* of the successful matches oks the one that starts first
Leftmost(oks) ==
    IF oks = {} THEN NoMatch ELSE CHOOSE m \in oks : \A d \in oks : m.start <= d.start

\* re.search(re, s, flags): the leftmost match
ReSearch(re, s, ic) ==
    LET starts == {i \in 1..(Len(s) + 1) : CanStart(re, s, i, ic)}
        tries == {[ReMatch(re, s, i, ic, NoMatch.caps) EXCEPT !.start = i] : i \in starts}
    IN  Leftmost({m \in tries : m.ok})

\* match.group()
MatchText(s, m) == SubSeq(s, m.start, m.end - 1)

\* match.group(g)
MatchGroup(s, m, g) == SubSeq(s, m.caps[g][1], m.caps[g][2] - 1)

(***************************************************************************)
(* Python values: None, str, datetime.date, and the other JSON values a    *)
(* vision response can hold; a raised exception is the value Raised        *)
(***************************************************************************)
None == [t |-> "none"]

Str(s) == [t |-> "str", s |-> s]

\* a JSON array / a Python list
List(items) == [t |-> "list", items |-> items]

\* a JSON number
Num(n) == [t |-> "num", n |-> n]

\* a JSON object / a Python dict, by its set of keys
Dict(keys) == [t |-> "dict", keys |-> keys]

Raised == [t |-> "raise"]

IsStr(v) == v.t = "str"

IsDate(v) == v.t = "date"

\* bool(v)
Truthy(v) ==
    CASE v.t = "none" -> FALSE
      [] v.t = "str"  -> v.s # ""
      [] v.t = "list" -> v.items # <<>>
      [] v.t = "num"  -> v.n # 0
      [] v.t = "dict" -> v.keys # {}
      [] OTHER        -> TRUE

IsLeap(y) == (y % 4 = 0 /\ y % 100 # 0) \/ y % 400 = 0

DaysInMonth(y, m) ==
    CASE m \in {4, 6, 9, 11} -> 30
      [] m = 2 -> IF IsLeap(y) THEN 29 ELSE 28
      [] OTHER -> 31

\* datetime.date(year, month, day); ValueError outside the calendar
MakeDate(y, m, d) ==
    IF y >= 1 /\ y <= 9999 /\ m >= 1 /\ m <= 12 /\ d >= 1 /\ d <= DaysInMonth(y, m)
    THEN [t |-> "date", y |-> y, m |-> m, d |-> d]
    ELSE Raised

\* a > b for two dates
DateLater(a, b) ==
    \/ a.y > b.y
    \/ a.y = b.y /\ a.m > b.m
    \/ a.y = b.y /\ a.m = b.m /\ a.d > b.d

\* date.isoformat()
IsoFormat(v) == ZeroPad(v.y, 4) \o "-" \o ZeroPad(v.m, 2) \o "-" \o ZeroPad(v.d, 2)

\* the pattern _strptime compiles for '%Y-%m-%d'
StrptimeRe ==
    Group(1, <<Rep(Digits, 4, 4)>>) \o Lit("-")
    \o Group(2, <<Alt(<< <<One({"1"}), One({"0", "1", "2"})>>,
                         <<One({"0"}), One(Digits \ {"0"})>>,
                         <<One(Digits \ {"0"})>> >>)>>) \o Lit("-")
    \o Group(3, <<Alt(<< <<One({"3"}), One({"0", "1"})>>,
                         <<One({"1", "2"}), One(Digits)>>,
                         <<One({"0"}), One(Digits \ {"0"})>>,
                         <<One(Digits \ {"0"})>>,
                         <<One({" "}), One(Digits \ {"0"})>> >>)>>)

\* the date of the match m of the '%Y-%m-%d' pattern on s
StrptimeDate(s, m) ==
    IF ~m.ok \/ m.end # Len(s) + 1 THEN Raised
    ELSE MakeDate(StrToInt(MatchGroup(s, m, 1)),
                  StrToInt(StrStrip(MatchGroup(s, m, 2))),
                  StrToInt(StrStrip(MatchGroup(s, m, 3))))

\* datetime.strptime(v, '%Y-%m-%d').date(); TypeError for a non-string,
\* ValueError for a mismatch, for unconverted data and for a non-date
Strptime(v) ==
    IF ~IsStr(v) THEN Raised
    ELSE StrptimeDate(v.s, ReMatch(StrptimeRe, v.s, 1, TRUE, NoMatch.caps))

(***************************************************************************)
(* ExtractedData                                                           *)
(***************************************************************************)
DateFields ==
    {"date_of_birth", "issue_date", "expiry_date", "admission_date",
     "admit_until_date", "priority_date", "validity_from", "validity_to"}

SimpleFields ==
    {"document_type", "document_number", "full_name", "first_name", "last_name",
     "nationality", "passport_number", "issuing_authority", "place_of_issue",
     "gender", "visa_type", "visa_class", "control_number", "entries",
     "annotation", "i94_number", "class_of_admission", "receipt_number",
     "notice_type", "beneficiary_name", "petitioner_name", "uscis_number",
     "category", "card_number"}

\* the fields that carry document data
DataFields == SimpleFields \cup DateFields

MetaFields == {"confidence_scores", "extracted_text", "warnings"}

\* __dataclass_fields__
AllFields == DataFields \cup MetaFields

\* ExtractedData() after __post_init__
ExtractedData ==
    [f \in AllFields |->
        CASE f = "confidence_scores" -> Dict({})
          [] f = "warnings"          -> List(<<>>)
          [] OTHER                   -> None]

\* result.warnings.append(w)
AddWarning(ed, w) ==
    [ed EXCEPT !["warnings"] = List(@.items \o <<w>>)]

(***************************************************************************)
(* DocumentExtractionService: classification                               *)
(***************************************************************************)
\* self.document_keywords as __init__ builds it, in the dict's order
InitDocumentKeywords ==
    << [type |-> "passport",
        high_priority |-> <<"passport number", "united states of america passport", "passport type">>,
        medium_priority |-> <<"passport", "passeport", "pasaporte">>,
        patterns |-> << Lit("passport") \o <<Plus(Space)>> \o Lit("no") \o <<One({":", "."} \cup Space)>>,
                        Lit("nationality") \o <<Plus({":"} \cup Space), Rep(UpperAZ, 2, 3)>> >>],
       [type |-> "visa",
        high_priority |-> <<"nonimmigrant visa", "immigrant visa", "visa type", "foil number">>,
        medium_priority |-> <<"visa", "entry", "control number">>,
        patterns |-> << Lit("visa") \o <<Plus(Space)>> \o Lit("type") \o <<One({":"} \cup Space)>>,
                        <<One(UpperAZ), Opt({"-"}), Rep(Digits, 1, 2), Opt(UpperAZ), Plus(Space)>> \o Lit("visa"),
                        Lit("control") \o <<Plus(Space)>> \o Lit("no") \o <<One({":"} \cup Space)>> >>],
       [type |-> "i94",
        high_priority |-> <<"i-94", "arrival/departure record", "admission number", "cbp.gov">>,
        medium_priority |-> <<"i94", "admitted until", "class of admission">>,
        patterns |-> << Lit("i") \o <<Opt({"-"})>> \o Lit("94") \o <<Plus(Space)>> \o Lit("number"),
                        Lit("admit") \o <<Plus(Space)>> \o Lit("until"),
                        Lit("class") \o <<Plus(Space)>> \o Lit("of") \o <<Plus(Space)>> \o Lit("admission") >>],
       [type |-> "i797",
        high_priority |-> <<"notice of action", "i-797", "uscis", "receipt number">>,
        medium_priority |-> <<"i797", "approval notice", "petition">>,
        patterns |-> << <<Rep(UpperAZ, 3, 3), Rep(Digits, 10, 10)>>,
                        Lit("receipt") \o <<Plus(Space)>> \o Lit("number"),
                        Lit("notice") \o <<Plus(Space)>> \o Lit("type") >>],
       [type |-> "ead",
        high_priority |-> <<"employment authorization document", "work permit", "uscis#">>,
        medium_priority |-> <<"ead", "employment authorization", "work authorization">>,
        patterns |-> << Lit("uscis") \o <<Star(Space), Opt({"#"}), One({":"} \cup Space)>>,
                        Lit("category") \o <<Plus({":"} \cup Space), One({"A", "C"}), Rep(Digits, 2, 2)>>,
                        Lit("card") \o <<Plus(Space)>> \o Lit("expires") >>],
       [type |-> "drivers_license",
        high_priority |-> <<"driver license", "drivers license", "motor vehicle">>,
        medium_priority |-> <<"driving license", "dl no", "license number">>,
        patterns |-> << Lit("dl") \o <<Plus(Space)>> \o Lit("no") \o <<One({":"} \cup Space)>>,
                        Lit("license") \o <<Plus(Space)>> \o Lit("number"),
                        Lit("motor") \o <<Plus(Space)>> \o Lit("vehicle") >>],
       [type |-> "green_card",
        high_priority |-> <<"permanent resident card", "green card", "lawful permanent resident">>,
        medium_priority |-> <<"resident alien", "permanent resident">>,
        patterns |-> << Lit("resident") \o <<Plus(Space)>> \o Lit("alien"),
                        Lit("permanent") \o <<Plus(Space)>> \o Lit("resident"),
                        Lit("card") \o <<Plus(Space)>> \o Lit("expires") >>] >>

\* the score the loop body of _detect_document_type gives one type
TypeScore(keyword_data, text_lower) ==
    10 * Cardinality({j \in 1..Len(keyword_data.high_priority) :
                         StrContains(text_lower, keyword_data.high_priority[j])})
    + 5 * Cardinality({j \in 1..Len(keyword_data.medium_priority) :
                         StrContains(text_lower, keyword_data.medium_priority[j])})
    + 15 * Cardinality({j \in 1..Len(keyword_data.patterns) :
                         Call("re.search", <<keyword_data.patterns[j], text_lower, FALSE>>).ok})

\* the score of every entry of keywords on text, in the entries' order
ScoresWith(keywords, text) ==
    LET text_lower == StrLower(text)
    IN  [i \in 1..Len(keywords) |-> TypeScore(keywords[i], text_lower)]

\* the local `scores` of _detect_document_type as a type -> score function;
\* a type absent from the dict has score 0
DetectScores(text) ==
    LET sc == ScoresWith(document_keywords, text)
    IN  [T \in {document_keywords[i].type : i \in 1..Len(document_keywords)} |->
            sc[CHOOSE i \in 1..Len(document_keywords) : document_keywords[i].type = T]]

non_immigration_keywords ==
    <<"blog post", "article", "substack", "newsletter", "tutorial",
      "engineering", "team", "project", "development", "software">>

\* the end of _detect_document_type for the scores sc of the entries of
\* keywords: max(scores, key=scores.get), the first key in insertion order
\* whose score is the highest; then the fallback on non-immigration keywords
BestType(keywords, sc, text_lower) ==
    LET positive == {i \in 1..Len(keywords) : sc[i] > 0}
        best == {i \in positive : \A j \in positive : sc[j] <= sc[i]}
        non_immigration_count ==
            Cardinality({j \in 1..Len(non_immigration_keywords) :
                            StrContains(text_lower, non_immigration_keywords[j])})
    IN  IF positive # {}
        THEN Str(keywords[CHOOSE i \in best : \A j \in best : i <= j].type)
        ELSE IF non_immigration_count >= 3 THEN Str("other") ELSE None

\* _detect_document_type(text) of a service whose document_keywords is keywords
DetectWith(keywords, text) == BestType(keywords, ScoresWith(keywords, text), StrLower(text))

\* a classifier whose dict order turns after the first recorded call
DetectDocumentTypeTurning(text) ==
    Call("_detect_document_type",
         <<IF memo = None THEN document_keywords
           ELSE [i \in DOMAIN document_keywords |->
                    document_keywords[Len(document_keywords) + 1 - i]], text>>)

\* DocumentExtractionService._detect_document_type(text)
DetectDocumentType(text) == Call("_detect_document_type", <<document_keywords, text>>)

(***************************************************************************)
(* DocumentExtractionService: field extraction                             *)
(***************************************************************************)
MonthNames ==
    <<"JAN", "FEB", "MAR", "APR", "MAY", "JUN", "JUL", "AUG", "SEP", "OCT", "NOV", "DEC">>

\* (JAN|FEB|...|DEC)
MonthAlt == Alt([i \in 1..Len(MonthNames) |-> Lit(MonthNames[i])])

\* the list date_patterns of _extract_date
date_patterns ==
    << Group(1, <<Rep(Digits, 1, 2)>>) \o <<One({"/", "-"})>>
         \o Group(2, <<Rep(Digits, 1, 2)>>) \o <<One({"/", "-"})>>
         \o Group(3, <<Rep(Digits, 2, 4)>>),
       Group(1, <<Rep(Digits, 1, 2)>>) \o <<Plus(Space)>>
         \o Group(2, <<MonthAlt>>) \o <<Plus(Space)>>
         \o Group(3, <<Rep(Digits, 2, 4)>>),
       Group(1, <<MonthAlt>>) \o <<Plus(Space)>>
         \o Group(2, <<Rep(Digits, 1, 2)>>) \o <<Opt({","}), Plus(Space)>>
         \o Group(3, <<Rep(Digits, 2, 4)>>) >>

\* months.get(name.upper(), 1)
MonthNumber(name) ==
    LET hits == {i \in 1..Len(MonthNames) : MonthNames[i] = StrUpper(name)}
    IN  IF hits = {} THEN 1 ELSE CHOOSE i \in hits : TRUE

\* the two-digit-year pivot of _parse_date_match
PivotYear(year) ==
    IF year < 100 THEN (IF year < 30 THEN year + 2000 ELSE year + 1900) ELSE year

\* can int(s) convert s (decimal digits, surrounding blanks allowed)
IntOk(s) == StrIsDigit(StrStrip(s))

\* _parse_date_match(match), by match.groups(); Raised for a ValueError
ParseDateMatch(groups) ==
    IF Len(groups) # 3 THEN Raised
    ELSE IF StrIsDigit(groups[1])
    THEN \* numeric date format: int() of all three groups
         IF ~IntOk(groups[2]) \/ ~IntOk(groups[3]) THEN Raised
         ELSE MakeDate(PivotYear(StrToInt(groups[3])), StrToInt(groups[1]), StrToInt(groups[2]))
    ELSE IF StrIsDigit(groups[2])
    THEN \* MMM DD YYYY
         IF ~IntOk(groups[3]) THEN Raised
         ELSE MakeDate(PivotYear(StrToInt(groups[3])), MonthNumber(groups[1]), StrToInt(groups[2]))
    ELSE \* DD MMM YYYY
         IF ~IntOk(groups[1]) \/ ~IntOk(groups[3]) THEN Raised
         ELSE MakeDate(PivotYear(StrToInt(groups[3])), MonthNumber(groups[2]), StrToInt(groups[1]))

RECURSIVE DateInLine(_, _, _)
\* the inner loop of _extract_date over patterns (date_patterns) from
\* pattern p on: the first pattern found in search_text whose match parses
DateInLine(search_text, patterns, p) ==
    IF p > Len(patterns) THEN None
    ELSE LET date_match == Call("re.search", <<patterns[p], search_text, TRUE>>)
             parsed == IF date_match.ok
                       THEN Call("_parse_date_match", << <<MatchGroup(search_text, date_match, 1),
                                                            MatchGroup(search_text, date_match, 2),
                                                            MatchGroup(search_text, date_match, 3)>> >>)
                       ELSE Raised
         IN  IF IsDate(parsed) THEN parsed ELSE DateInLine(search_text, patterns, p + 1)

RECURSIVE ExtractDateFrom(_, _, _)
\* the outer loop of _extract_date from keyword k on: the rest of the line
\* of the keyword's first occurrence is searched for a date
ExtractDateFrom(text, keywords, k) ==
    IF k > Len(keywords) THEN None
    ELSE LET keyword_match == Call("re.search", <<Lit(keywords[k]) \o <<NotStar({"\n"})>>, text, TRUE>>)
             found == IF keyword_match.ok
                      THEN DateInLine(MatchText(text, keyword_match), date_patterns, 1) ELSE None
         IN  IF IsDate(found) THEN found ELSE ExtractDateFrom(text, keywords, k + 1)

\* DocumentExtractionService._extract_date(text, keywords)
ExtractDate(text, keywords) == ExtractDateFrom(text, keywords, 1)

RECURSIVE LabelledCapitals(_, _, _, _)
\* the loop both _extract_name and _extract_field run, from keyword i on:
\* the first keyword whose labelled run of capitals, stripped and
\* collapsed, is longer than minLen and shorter than 100
LabelledCapitals(text, keywords, minLen, i) ==
    IF i > Len(keywords) THEN None
    ELSE LET m == Call("re.search", <<Lit(keywords[i]) \o <<Plus({":"} \cup Space)>>
                                          \o Group(1, <<One(UpperAZ), Plus(UpperAZ \cup Space)>>), text, TRUE>>)
             name == CollapseSpace(StrStrip(MatchGroup(text, m, 1)))
         IN  IF m.ok /\ Len(name) > minLen /\ Len(name) < 100 THEN Str(name)
             ELSE LabelledCapitals(text, keywords, minLen, i + 1)

\* DocumentExtractionService._extract_name(text)
ExtractName(text) ==
    LabelledCapitals(text, <<"name", "surname", "given name", "family name">>, 3, 1)

\* DocumentExtractionService._extract_field(text, keywords)
ExtractField(text, keywords) == LabelledCapitals(text, keywords, 2, 1)

\* [A-Z]{3}[0-9]{9}
receipt_pattern_nine == <<Rep(UpperAZ, 3, 3), Rep(Digits, 9, 9)>>

\* [A-Z]{3}[0-9]{10}
receipt_pattern == <<Rep(UpperAZ, 3, 3), Rep(Digits, 10, 10)>>

\* [A-Z][0-9]{8}|[A-Z]{2}[0-9]{7}
passport_pattern ==
    <<Alt(<< <<One(UpperAZ), Rep(Digits, 8, 8)>>, <<Rep(UpperAZ, 2, 2), Rep(Digits, 7, 7)>> >>)>>

\* [A-Z]-?[0-9]{1,2}[A-Z]?
visa_type_pattern == <<One(UpperAZ), Opt({"-"}), Rep(Digits, 1, 2), Opt(UpperAZ)>>

\* the text of the leftmost match of re in text, or None
FoundText(re, text, ic) ==
    LET m == Call("re.search", <<re, text, ic>>) IN IF m.ok THEN Str(MatchText(text, m)) ELSE None

\* group 1 of the leftmost match of re in text, or None
FoundGroup(re, text, ic) ==
    LET m == Call("re.search", <<re, text, ic>>) IN IF m.ok THEN Str(MatchGroup(text, m, 1)) ELSE None

\* DocumentExtractionService._extract_passport_data
ExtractPassportData(text, result) ==
    LET number == FoundText(passport_pattern, text, FALSE)
        full_name == Call("_extract_name", <<text>>)
        sp == IF IsStr(full_name)
              THEN {i \in 1..Len(full_name.s) : CharAt(full_name.s, i) = " "} ELSE {}
        cut == IF sp = {} THEN 0 ELSE CHOOSE i \in sp : \A j \in sp : i <= j
        gender == FoundText(<<WordB>> \o Group(1, <<Alt(<<Lit("M"), Lit("F"), Lit("MALE"), Lit("FEMALE")>>)>>)
                            \o <<WordB>>, StrUpper(text), FALSE)
    IN  [result EXCEPT
            !["passport_number"] = IF IsStr(number) THEN number ELSE @,
            !["document_number"] = IF IsStr(number) THEN number ELSE @,
            !["issue_date"] = Call("_extract_date", <<text, <<"date of issue", "issued">>>>),
            !["expiry_date"] = Call("_extract_date", <<text, <<"date of expiry", "expires", "expiration">>>>),
            !["date_of_birth"] = Call("_extract_date", <<text, <<"date of birth", "dob", "born">>>>),
            !["full_name"] = full_name,
            !["first_name"] = IF cut > 0 THEN Str(SubSeq(full_name.s, 1, cut - 1)) ELSE @,
            !["last_name"] = IF cut > 0 THEN Str(SubSeq(full_name.s, cut + 1, Len(full_name.s))) ELSE @,
            !["nationality"] = Call("_extract_field", <<text, <<"nationality", "citizen">>>>),
            !["gender"] = IF IsStr(gender) THEN Str(CharAt(gender.s, 1)) ELSE @]

\* DocumentExtractionService._extract_visa_data
ExtractVisaData(text, result) ==
    LET control_match == FoundText(Lit("control") \o <<NotStar({"\n"}), Rep(Digits, 8, 12)>>, text, TRUE)
        number == IF IsStr(control_match)
                  THEN FoundText(<<Rep(Digits, 8, 12)>>, control_match.s, FALSE) ELSE None
        visa_type == FoundGroup(<<Alt(<<Lit("visa type"), Lit("class")>>), NotStar({"\n"})>>
                                \o Group(1, visa_type_pattern), text, TRUE)
        entries == FoundGroup(Group(1, <<Alt(<<Lit("single"), Lit("multiple"), Lit("multi")>>)>>)
                              \o <<Star(Space)>> \o Lit("entr"), text, TRUE)
    IN  [result EXCEPT
            !["control_number"] = IF IsStr(number) THEN number ELSE @,
            !["document_number"] = IF IsStr(number) THEN number ELSE @,
            !["visa_type"] = IF IsStr(visa_type) THEN visa_type ELSE @,
            !["visa_class"] = IF IsStr(visa_type) THEN visa_type ELSE @,
            !["issue_date"] = Call("_extract_date", <<text, <<"issue date", "issued">>>>),
            !["expiry_date"] = Call("_extract_date", <<text, <<"expiration date", "expires">>>>),
            !["entries"] = IF IsStr(entries) THEN Str(StrUpper(entries.s)) ELSE @,
            !["full_name"] = Call("_extract_name", <<text>>)]

\* DocumentExtractionService._extract_i94_data
ExtractI94Data(text, result) ==
    LET number == FoundGroup(<<Alt(<<Lit("i-94"), Lit("admission")>>), NotStar({"\n"})>>
                             \o Group(1, <<Rep(Digits, 11, 11)>>), text, TRUE)
        class == FoundGroup(Lit("class of admission") \o <<NotStar({"\n"})>>
                            \o Group(1, visa_type_pattern), text, TRUE)
    IN  [result EXCEPT
            !["i94_number"] = IF IsStr(number) THEN number ELSE @,
            !["document_number"] = IF IsStr(number) THEN number ELSE @,
            !["admission_date"] = Call("_extract_date", <<text, <<"admission date", "admitted">>>>),
            !["admit_until_date"] = Call("_extract_date", <<text, <<"admit until", "admitted until">>>>),
            !["class_of_admission"] = IF IsStr(class) THEN class ELSE @]

\* DocumentExtractionService._extract_i797_data
ExtractI797Data(text, result) ==
    LET receipt == FoundText(receipt_pattern, text, FALSE)
        notice == FoundGroup(Lit("notice of ") \o Group(1, <<Alt(<<Lit("approval"), Lit("receipt"), Lit("rejection")>>)>>),
                             text, TRUE)
        party(label) == FoundGroup(Lit(label) \o <<Plus({":"} \cup Space)>>
                                   \o Group(1, <<Plus(UpperAZ \cup Space \cup {","})>>), text, TRUE)
        beneficiary == party("beneficiary")
        petitioner == party("petitioner")
    IN  [result EXCEPT
            !["receipt_number"] = IF IsStr(receipt) THEN receipt ELSE @,
            !["document_number"] = IF IsStr(receipt) THEN receipt ELSE @,
            !["notice_type"] = IF IsStr(notice) THEN Str(StrUpper(notice.s)) ELSE @,
            !["validity_from"] = Call("_extract_date", <<text, <<"valid from", "validity from">>>>),
            !["validity_to"] = Call("_extract_date", <<text, <<"valid to", "validity to", "valid until">>>>),
            !["beneficiary_name"] = IF IsStr(beneficiary) THEN Str(StrStrip(beneficiary.s)) ELSE @,
            !["petitioner_name"] = IF IsStr(petitioner) THEN Str(StrStrip(petitioner.s)) ELSE @]

\* DocumentExtractionService._extract_ead_data
ExtractEadData(text, result) ==
    LET uscis == FoundText(<<Rep(Digits, 3, 3), One({"-"}), Rep(Digits, 3, 3), One({"-"}), Rep(Digits, 3, 3)>>,
                           text, FALSE)
        card == FoundText(receipt_pattern, text, FALSE)
        category == FoundGroup(Lit("(") \o Group(1, <<One({"a", "c"}), Rep(Digits, 1, 2), Opt(LowerAZ)>>)
                               \o Lit(")"), text, TRUE)
    IN  [result EXCEPT
            !["uscis_number"] = IF IsStr(uscis) THEN uscis ELSE @,
            !["card_number"] = IF IsStr(card) THEN card ELSE @,
            !["document_number"] = IF IsStr(card) THEN card ELSE @,
            !["category"] = IF IsStr(category) THEN Str(StrUpper(category.s)) ELSE @,
            !["issue_date"] = Call("_extract_date", <<text, <<"card expires", "valid from">>>>),
            !["expiry_date"] = Call("_extract_date", <<text, <<"card expires", "exp date">>>>)]

\* DocumentExtractionService._extract_generic_data
ExtractGenericData(text, result) ==
    LET doc_patterns == <<receipt_pattern, <<One(UpperAZ), Rep(Digits, 8, 8)>>, <<Rep(Digits, 11, 11)>> >>
        hits == {i \in 1..Len(doc_patterns) : Call("re.search", <<doc_patterns[i], text, FALSE>>).ok}
    IN  [result EXCEPT
            !["full_name"] = Call("_extract_name", <<text>>),
            !["issue_date"] = Call("_extract_date", <<text, <<"issue", "issued">>>>),
            !["expiry_date"] = Call("_extract_date", <<text, <<"expir", "valid until">>>>),
            !["document_number"] =
                IF hits = {} THEN @
                ELSE FoundText(doc_patterns[CHOOSE i \in hits : \A j \in hits : i <= j], text, FALSE)]

\* DocumentExtractionService._extract_structured_data(text, document_type)
ExtractStructuredData(text, document_type) ==
    LET result == [ExtractedData EXCEPT !["document_type"] = document_type]
    IN  CASE document_type = Str("passport") -> Call("_extract_passport_data", <<text, result>>)
          [] document_type = Str("visa")     -> Call("_extract_visa_data", <<text, result>>)
          [] document_type = Str("i94")      -> Call("_extract_i94_data", <<text, result>>)
          [] document_type = Str("i797")     -> Call("_extract_i797_data", <<text, result>>)
          [] document_type = Str("ead")      -> Call("_extract_ead_data", <<text, result>>)
          [] OTHER                           -> Call("_extract_generic_data", <<text, result>>)

(***************************************************************************)
(* AIDocumentExtractionService: response parsing and merge                 *)
(***************************************************************************)
\* a Python dict is a function on its set of keys; {} is the empty function
EmptyDict == <<>>

HasKey(d, k) == k \in DOMAIN d

\* d[k] = v
DictSet(d, k, v) == [x \in (DOMAIN d) \cup {k} |-> IF x = k THEN v ELSE d[x]]

\* del d[k]
DictDel(d, k) == [x \in (DOMAIN d) \ {k} |-> d[x]]

\* str(v) inside an f-string
PyStr(v) ==
    CASE v.t = "str"  -> v.s
      [] v.t = "date" -> IsoFormat(v)
      [] v.t = "none" -> "None"
      [] v.t = "num"  -> "<number>"
      [] v.t = "list" -> "<list>"
      [] OTHER        -> "<object>"

\* the keys of date_fields in _parse_ai_response, in the dict's order
date_fields ==
    <<"date_of_birth", "issue_date", "expiry_date", "admission_date",
      "admit_until_date", "priority_date", "validity_from", "validity_to">>

RECURSIVE ParseAiDates(_, _, _)
\* the loop with "D/S" kept in the field
ParseAiDatesKeeping(result, data, i) ==
    IF i > Len(date_fields) THEN result
    ELSE LET json_field == date_fields[i]
             value == data[json_field]
             date_obj == Call("strptime", <<value>>)
             next ==
                IF ~(HasKey(data, json_field) /\ Truthy(value)) THEN result
                ELSE IF value = Str("D/S")
                     THEN [AddWarning(result, json_field \o ": Duration of Status (D/S)")
                              EXCEPT ![json_field] = value]
                ELSE IF IsDate(date_obj)
                     THEN [result EXCEPT ![json_field] = date_obj]
                ELSE AddWarning(result, "Could not parse date: " \o json_field \o "=" \o PyStr(value))
         IN  ParseAiDates(next, data, i + 1)

\* the loop over date_fields of _parse_ai_response, from entry i on
ParseAiDates(result, data, i) ==
    IF i > Len(date_fields) THEN result
    ELSE LET json_field == date_fields[i]
             value == data[json_field]
             date_obj == Call("strptime", <<value>>)
             next ==
                IF ~(HasKey(data, json_field) /\ Truthy(value)) THEN result
                ELSE IF value = Str("D/S")
                     THEN AddWarning(result, json_field \o ": Duration of Status (D/S)")
                ELSE IF IsDate(date_obj)
                     THEN [result EXCEPT ![json_field] = date_obj]
                ELSE AddWarning(result, "Could not parse date: " \o json_field \o "=" \o PyStr(value))
         IN  ParseAiDates(next, data, i + 1)

\* the confidence step of _parse_ai_response
ParseAiConfidence(result, data) ==
    IF HasKey(data, "confidence_scores") /\ data["confidence_scores"].t = "dict"
    THEN [result EXCEPT !["confidence_scores"] = data["confidence_scores"]]
    ELSE result

\* AIDocumentExtractionService._parse_ai_response(data), data a JSON object
ParseAiResponse(data) ==
    ParseAiConfidence(
        ParseAiDates([f \in AllFields |->
                         IF f \in SimpleFields /\ HasKey(data, f) /\ Truthy(data[f])
                         THEN data[f] ELSE ExtractedData[f]], data, 1),
        data)

\* a merge that takes only None for unset
MergeFieldNoneOnly(ai_value, base_value) ==
    IF ai_value = None /\ Truthy(base_value) THEN base_value ELSE ai_value

\* the loop of _merge_results for one field: the vision value unless it is
\* None or "" while the base value is truthy
MergeField(ai_value, base_value) ==
    IF (ai_value = None \/ ai_value = Str("")) /\ Truthy(base_value)
    THEN base_value ELSE ai_value

\* AIDocumentExtractionService._merge_results(base_result, ai_result): the
\* state of the object ai_result (which is the object returned) afterwards
MergeResults(base_result, ai_result) ==
    LET merged == [f \in AllFields |-> MergeField(ai_result[f], base_result[f])]
    IN  [merged EXCEPT
            !["warnings"] = List(@.items \o base_result["warnings"].items),
            !["extracted_text"] = base_result["extracted_text"]]

(***************************************************************************)
(* DocumentDataMapper                                                      *)
(***************************************************************************)
\* self.mappings: per type, the (target field, extracted field) pairs of
\* document_metadata_fields and of profile_update_fields
mappings ==
    [passport |->
        [document_metadata_fields |->
            << <<"document_number", "passport_number">>, <<"issuing_authority", "issuing_authority">>,
               <<"issue_date", "issue_date">>, <<"expiry_date", "expiry_date">> >>,
         profile_update_fields |->
            << <<"passport_number", "passport_number">>, <<"passport_expiry_date", "expiry_date">> >>],
     visa |->
        [document_metadata_fields |->
            << <<"document_number", "control_number">>, <<"document_subtype", "visa_type">>,
               <<"issuing_authority", "issuing_authority">>, <<"issue_date", "issue_date">>,
               <<"expiry_date", "expiry_date">>, <<"related_immigration_type", "visa_class">> >>,
         profile_update_fields |-> << <<"visa_expiry_date", "expiry_date">> >>],
     i94 |->
        [document_metadata_fields |->
            << <<"document_number", "i94_number">>, <<"issue_date", "admission_date">>,
               <<"expiry_date", "admit_until_date">>, <<"related_immigration_type", "class_of_admission">> >>,
         profile_update_fields |->
            << <<"most_recent_i94_number", "i94_number">>, <<"most_recent_entry_date", "admission_date">>,
               <<"authorized_stay_until", "admit_until_date">> >>],
     i797 |->
        [document_metadata_fields |->
            << <<"document_number", "receipt_number">>, <<"document_subtype", "notice_type">>,
               <<"issue_date", "validity_from">>, <<"expiry_date", "validity_to">>,
               <<"issuing_authority", "issuing_authority">> >>,
         profile_update_fields |-> << >>],
     ead |->
        [document_metadata_fields |->
            << <<"document_number", "card_number">>, <<"document_subtype", "category">>,
               <<"issue_date", "issue_date">>, <<"expiry_date", "expiry_date">> >>,
         profile_update_fields |-> << <<"ead_expiry_date", "expiry_date">> >>],
     green_card |->
        [document_metadata_fields |->
            << <<"document_number", "card_number">>, <<"issue_date", "issue_date">>,
               <<"expiry_date", "expiry_date">> >>,
         profile_update_fields |-> << >>],
     drivers_license |->
        [document_metadata_fields |->
            << <<"document_number", "document_number">>, <<"issuing_authority", "issuing_authority">>,
               <<"issue_date", "issue_date">>, <<"expiry_date", "expiry_date">> >>,
         profile_update_fields |-> << >>]]

\* document_type in self.mappings, for a hashable document_type
HasMapping(document_type) == IsStr(document_type) /\ document_type.s \in DOMAIN mappings

\* hash(v) raises TypeError for a list and for a dict
Unhashable(v) == v.t \in {"list", "dict"}

\* the result dict every mapping starts from
EmptyMapping ==
    [t |-> "mapping", document_metadata |-> EmptyDict, profile_updates |-> EmptyDict,
     confidence_info |-> Dict({}), warnings |-> <<>>, extras |-> EmptyDict]

RECURSIVE MapMetadata(_, _, _, _)
\* the loop over mapping.document_metadata_fields, from pair i on
MapMetadata(result, fields, extracted_data, i) ==
    IF i > Len(fields) THEN result
    ELSE LET db_field == fields[i][1]
             value == extracted_data[fields[i][2]]
             parsed == Call("strptime", <<value>>)
             next ==
                IF value = None THEN result
                ELSE IF IsDate(value)
                     THEN [result EXCEPT !.document_metadata = DictSet(@, db_field, Str(IsoFormat(value)))]
                ELSE IF db_field \in {"issue_date", "expiry_date"} /\ IsStr(value)
                     THEN IF IsDate(parsed)
                          THEN [result EXCEPT !.document_metadata = DictSet(@, db_field, Str(IsoFormat(parsed)))]
                          ELSE [result EXCEPT !.warnings =
                                    @ \o <<"Could not parse date for " \o db_field \o ": " \o value.s>>]
                ELSE [result EXCEPT !.document_metadata = DictSet(@, db_field, value)]
         IN  MapMetadata(next, fields, extracted_data, i + 1)

RECURSIVE MapProfileUpdates(_, _, _, _)
\* the loop over mapping.profile_update_fields, from pair i on
MapProfileUpdates(result, fields, extracted_data, i) ==
    IF i > Len(fields) THEN result
    ELSE LET value == extracted_data[fields[i][2]]
             next ==
                IF value = None THEN result
                ELSE [result EXCEPT !.profile_updates =
                        DictSet(@, fields[i][1], IF IsDate(value) THEN Str(IsoFormat(value)) ELSE value)]
         IN  MapProfileUpdates(next, fields, extracted_data, i + 1)

\* visa_mapping of _apply_document_specific_logic
visa_mapping ==
    [x \in {"H-1B", "H1B", "L-1", "L1", "F-1", "F1", "J-1", "J1", "O-1", "O1", "B-1/B-2", "B1/B2"} |->
        CASE x \in {"H-1B", "H1B"}       -> "H1-B"
          [] x \in {"L-1", "L1"}         -> "L-1"
          [] x \in {"F-1", "F1"}         -> "F-1"
          [] x \in {"J-1", "J1"}         -> "J-1"
          [] x \in {"O-1", "O1"}         -> "O-1"
          [] x \in {"B-1/B-2", "B1/B2"}  -> "B1/B2"]

\* category_mapping of _apply_document_specific_logic
category_mapping ==
    [x \in {"C09", "C10", "A05", "C03", "C08"} |->
        CASE x = "C09" -> "H1-B spouse (H4)"
          [] x = "C10" -> "L-1 spouse (L2)"
          [] x = "A05" -> "Asylee"
          [] x = "C03" -> "F-1 student"
          [] x = "C08" -> "Asylum applicant"]

\* DocumentDataMapper._apply_document_specific_logic; Raised when .upper()
\* is called on a value that is not a string (AttributeError)
ApplyDocumentSpecificLogic(result, extracted_data, document_type) ==
    CASE document_type = "passport" ->
            IF Truthy(extracted_data["nationality"])
            THEN [result EXCEPT !.extras = DictSet(@, "country_lookup", extracted_data["nationality"])]
            ELSE result
      [] document_type = "visa" ->
            LET visa_type == extracted_data["visa_type"]
            IN  IF ~Truthy(visa_type) THEN result
                ELSE IF ~IsStr(visa_type) THEN Raised
                ELSE IF StrUpper(visa_type.s) \in DOMAIN visa_mapping
                     THEN [result EXCEPT !.document_metadata =
                             DictSet(@, "related_immigration_type", Str(visa_mapping[StrUpper(visa_type.s)]))]
                     ELSE result
      [] document_type = "i94" ->
            LET admit == extracted_data["admit_until_date"]
            IN  IF IsStr(admit) /\ StrContains(StrUpper(admit.s), "D/S")
                THEN [result EXCEPT
                        !.profile_updates = DictSet(@, "authorized_stay_until", None),
                        !.warnings = @ \o <<"I-94 shows Duration of Status (D/S) - no specific end date">>]
                ELSE result
      [] document_type = "i797" ->
            LET priority_date == extracted_data["priority_date"]
            IN  IF Truthy(priority_date)
                THEN [result EXCEPT !.extras = DictSet(@, "priority_date_update",
                        [date |-> IF IsDate(priority_date) THEN Str(IsoFormat(priority_date)) ELSE priority_date,
                         document_type |-> "i797"])]
                ELSE result
      [] document_type = "ead" ->
            LET uscis_number == extracted_data["uscis_number"]
                category == extracted_data["category"]
                withNumber ==
                    IF Truthy(uscis_number)
                    THEN [result EXCEPT !.profile_updates = DictSet(@, "alien_registration_number", uscis_number)]
                    ELSE result
            IN  IF ~Truthy(category) THEN withNumber
                ELSE IF ~IsStr(category) THEN Raised
                ELSE IF StrUpper(category.s) \in DOMAIN category_mapping
                     THEN [withNumber EXCEPT !.extras =
                             DictSet(@, "status_hint", Str(category_mapping[StrUpper(category.s)]))]
                     ELSE withNumber
      [] OTHER -> result

\* basic_mappings without its last entry
basic_mappings_three ==
    << <<"document_number", "document_number">>, <<"issue_date", "issue_date">>,
       <<"expiry_date", "expiry_date">> >>

\* basic_mappings of _create_generic_mapping
basic_mappings ==
    << <<"document_number", "document_number">>, <<"issue_date", "issue_date">>,
       <<"expiry_date", "expiry_date">>, <<"issuing_authority", "issuing_authority">> >>

RECURSIVE GenericFields(_, _, _)
\* the loop over basic_mappings, from pair i on
GenericFields(result, extracted_data, i) ==
    IF i > Len(basic_mappings) THEN result
    ELSE LET value == extracted_data[basic_mappings[i][2]]
             next ==
                IF value = None THEN result
                ELSE [result EXCEPT !.document_metadata =
                        DictSet(@, basic_mappings[i][1], IF IsDate(value) THEN Str(IsoFormat(value)) ELSE value)]
         IN  GenericFields(next, extracted_data, i + 1)

\* DocumentDataMapper._create_generic_mapping(extracted_data)
CreateGenericMapping(extracted_data) ==
    GenericFields([EmptyMapping EXCEPT !.warnings = <<"Unknown document type - using generic mapping">>],
                  extracted_data, 1)

\* the confidence step of map_extracted_data
MapConfidence(result, extracted_data) ==
    IF Truthy(extracted_data["confidence_scores"])
    THEN [result EXCEPT !.confidence_info = extracted_data["confidence_scores"]]
    ELSE result

\* DocumentDataMapper.map_extracted_data(extracted_data, document_type);
\* Raised when the lookup or the type-specific logic raises
MapExtractedData(extracted_data, document_type) ==
    IF Unhashable(document_type) THEN Raised
    ELSE IF ~HasMapping(document_type) THEN Call("_create_generic_mapping", <<extracted_data>>)
    ELSE Call("_apply_document_specific_logic",
              <<MapConfidence(
                    MapProfileUpdates(
                        MapMetadata(EmptyMapping, mappings[document_type.s].document_metadata_fields,
                                    extracted_data, 1),
                        mappings[document_type.s].profile_update_fields, extracted_data, 1),
                    extracted_data),
                extracted_data, document_type.s>>)

\* 'date' in field.lower()
IsDateNamed(field) == StrContains(StrLower(field), "date")

\* the date-named keys a mapping can hold, in the order the mapper
\* inserts them into document_metadata and into profile_updates
date_named_keys ==
    [document_metadata |-> <<"issue_date", "expiry_date">>,
     profile_updates |-> <<"passport_expiry_date", "visa_expiry_date", "most_recent_entry_date",
                           "ead_expiry_date">>]

RECURSIVE ValidateDates(_, _, _)
\* the date loop of validate_mapping_data over one field group, from the
\* i-th date-named key on: a string that does not parse is dropped with a warning
ValidateDates(data, field_group, i) ==
    LET keys == date_named_keys[field_group]
    IN  IF i > Len(keys) THEN data
        ELSE LET field == keys[i]
                 group == data[field_group]
                 next ==
                    IF HasKey(group, field) /\ IsDateNamed(field) /\ IsStr(group[field])
                       /\ ~IsDate(Call("strptime", <<group[field]>>))
                    THEN [data EXCEPT ![field_group] = DictDel(@, field),
                                      !.warnings = @ \o <<"Invalid date format for " \o field \o ": "
                                                          \o group[field].s>>]
                    ELSE data
             IN  ValidateDates(next, field_group, i + 1)

\* the document-number check of validate_mapping_data
ValidateDocumentNumber(validated_data) ==
    LET doc_metadata == validated_data.document_metadata
    IN  IF HasKey(doc_metadata, "document_number")
           /\ (~IsStr(doc_metadata["document_number"])
               \/ Len(StrStrip(doc_metadata["document_number"].s)) = 0)
        THEN [validated_data EXCEPT !.document_metadata = DictDel(@, "document_number"),
                                    !.warnings = @ \o <<"Empty or invalid document number">>]
        ELSE validated_data

\* DocumentDataMapper.validate_mapping_data(mapped_data)
ValidateMappingData(mapped_data) ==
    ValidateDocumentNumber(
        ValidateDates(ValidateDates(mapped_data, "document_metadata", 1), "profile_updates", 1))

(***************************************************************************)
(* DocumentExtractionService: text acquisition                             *)
(***************************************************************************)
\* An uploaded file is what the libraries make of its bytes:
\*   content_type  the declared MIME type
\*   ocr           pytesseract.image_to_string of the (first) page, or
\*                 Raised when PIL / pdf2image / tesseract fails on it
\*   text_layer    PyPDF2's extract_text of a one-page PDF, or Raised; for
\*                 a PDF of several pages [t |-> "pages", items |-> ...],
\*                 extract_text of each page, or Raised for a page
image_types == {"image/jpeg", "image/jpg", "image/png", "image/tiff"}

\* len(text.strip()) below which _extract_from_pdf falls back to OCR
MinPdfText == 100

\* _extract_from_image that runs the classifier whatever the hint
ExtractFromImageDetecting(keywords, file, document_type_hint) ==
    IF file.ocr = Raised THEN Raised
    ELSE LET text == file.ocr.s
             hint == Call("_detect_document_type", <<keywords, text>>)
         IN  [Call("_extract_structured_data", <<text, hint>>) EXCEPT !["extracted_text"] = Str(text)]

\* DocumentExtractionService._extract_from_image with self.document_keywords
\* = keywords; Raised when a library raises
ExtractFromImageWith(keywords, file, document_type_hint) ==
    IF file.ocr = Raised THEN Raised
    ELSE LET text == file.ocr.s
             hint == IF Truthy(document_type_hint) THEN document_type_hint
                     ELSE Call("_detect_document_type", <<keywords, text>>)
         IN  [Call("_extract_structured_data", <<text, hint>>) EXCEPT !["extracted_text"] = Str(text)]

RECURSIVE PagesText(_, _)
\* the loop over pdf_reader.pages from page i on: text grows by each page's
\* text until a page raises
PagesText(pages, i) ==
    IF i > Len(pages) \/ pages[i] = Raised THEN ""
    ELSE pages[i].s \o "\n" \o PagesText(pages, i + 1)

\* text when the try block of _extract_from_pdf is left
LayerText(file) ==
    IF file.text_layer = Raised THEN ""
    ELSE IF IsStr(file.text_layer) THEN file.text_layer.s \o "\n"
    ELSE PagesText(file.text_layer.items, 1)

\* the text _extract_from_pdf settles on: the text layer, or the OCR of
\* the pages when the layer holds fewer than MinPdfText characters
PdfText(file) ==
    LET layer == LayerText(file)
    IN  IF Len(StrStrip(layer)) < MinPdfText THEN file.ocr ELSE Str(layer)

\* DocumentExtractionService._extract_from_pdf with self.document_keywords
\* = keywords; Raised when a library raises
ExtractFromPdfWith(keywords, file, document_type_hint) ==
    LET text == PdfText(file)
    IN  IF text = Raised THEN Raised
        ELSE LET hint == IF Truthy(document_type_hint) THEN document_type_hint
                         ELSE Call("_detect_document_type", <<keywords, text.s>>)
             IN  [Call("_extract_structured_data", <<text.s, hint>>) EXCEPT !["extracted_text"] = text]

\* DocumentExtractionService.extract_from_file(file_content, file_type, hint)
\* with self.document_keywords = keywords
ExtractFromFileWith(keywords, file, document_type_hint) ==
    LET file_type == StrLower(file.content_type)
        result == IF file_type \in image_types
                  THEN Call("_extract_from_image", <<keywords, file, document_type_hint>>)
                  ELSE IF file_type = "application/pdf"
                       THEN Call("_extract_from_pdf", <<keywords, file, document_type_hint>>)
                  ELSE Raised
    IN  IF result # Raised THEN result
        ELSE AddWarning(ExtractedData,
                        IF file_type \in image_types \cup {"application/pdf"}
                        THEN "Extraction error: <library error>"
                        ELSE "Extraction error: Unsupported file type: " \o file.content_type)

(***************************************************************************)
(* AIDocumentExtractionService: the vision call                            *)
(***************************************************************************)
\* content.find(c): the 0-based index of the first c, -1 when there is none
StrFind(content, c) ==
    LET hits == {i \in 1..Len(content) : CharAt(content, i) = c}
    IN  IF hits = {} THEN -1 ELSE (CHOOSE i \in hits : \A j \in hits : i <= j) - 1

\* content.rfind(c): the 0-based index of the last c, -1 when there is none
StrRFind(content, c) ==
    LET hits == {i \in 1..Len(content) : CharAt(content, i) = c}
    IN  IF hits = {} THEN -1 ELSE (CHOOSE i \in hits : \A j \in hits : i >= j) - 1

\* json.loads on the JSON texts the model's vision answers hold; any other
\* text is not JSON (JSONDecodeError)
json_documents ==
    [x \in {"{}",
            "{\"document_type\": \"visa\", \"expiry_date\": \"2026-01-01\"}",
            "{\"expiry_date\": \"2024-01-01\"}",
            "{\"document_type\": \"i94\", \"admit_until_date\": \"D/S\"}",
            "{\"document_type\": \"visa\", \"visa_type\": [\"B-1\", \"B-2\"]}",
            "{\"document_type\": \"i797\", \"priority_date\": \"03/01/2024\"}",
            "{\"document_type\": \"i797\", \"priority_date\": \"2020-01-15\"}",
            "{\"document_type\": \"state_id\"}",
            "{\"document_type\": \"ead\", \"uscis_number\": \"987-654-321\"}",
            "{\"passport_number\": \"X1234567\", \"expiry_date\": \"2031-05-05\"}"} |->
        CASE x = "{}" -> EmptyDict
          [] x = "{\"document_type\": \"visa\", \"expiry_date\": \"2026-01-01\"}" ->
                [document_type |-> Str("visa"), expiry_date |-> Str("2026-01-01")]
          [] x = "{\"expiry_date\": \"2024-01-01\"}" ->
                [expiry_date |-> Str("2024-01-01")]
          [] x = "{\"document_type\": \"i94\", \"admit_until_date\": \"D/S\"}" ->
                [document_type |-> Str("i94"), admit_until_date |-> Str("D/S")]
          [] x = "{\"document_type\": \"visa\", \"visa_type\": [\"B-1\", \"B-2\"]}" ->
                [document_type |-> Str("visa"), visa_type |-> List(<<"B-1", "B-2">>)]
          [] x = "{\"document_type\": \"i797\", \"priority_date\": \"03/01/2024\"}" ->
                [document_type |-> Str("i797"), priority_date |-> Str("03/01/2024")]
          [] x = "{\"document_type\": \"i797\", \"priority_date\": \"2020-01-15\"}" ->
                [document_type |-> Str("i797"), priority_date |-> Str("2020-01-15")]
          [] x = "{\"document_type\": \"state_id\"}" ->
                [document_type |-> Str("state_id")]
          [] x = "{\"document_type\": \"ead\", \"uscis_number\": \"987-654-321\"}" ->
                [document_type |-> Str("ead"), uscis_number |-> Str("987-654-321")]
          [] x = "{\"passport_number\": \"X1234567\", \"expiry_date\": \"2031-05-05\"}" ->
                [passport_number |-> Str("X1234567"), expiry_date |-> Str("2031-05-05")]]

\* json.loads(json_str); Raised for a JSONDecodeError
JsonLoads(json_str) ==
    IF json_str \in DOMAIN json_documents THEN json_documents[json_str] ELSE Raised

\* _extract_with_openai / _extract_with_anthropic once the provider has
\* answered: `response` is the answer's text, or Raised when the call raised
ExtractWithProvider(response) ==
    IF response = Raised THEN ExtractedData
    ELSE LET content == response.s
             json_start == StrFind(content, "{")
             json_end == StrRFind(content, "}") + 1
             data == JsonLoads(SubSeq(content, json_start + 1, json_end))
         IN  IF json_start >= 0 /\ json_end > json_start /\ data # Raised
             THEN Call("_parse_ai_response", <<data>>)
             ELSE ExtractedData

\* the file types extract_with_ai sends to the vision model as they are
vision_image_types == {"image/jpeg", "image/jpg", "image/png"}

\* whether extract_with_ai, with a client configured, reaches the vision call
\* for this file: an image of a vision type, or a PDF whose first page
\* pdf2image renders
ReachesVision(file) ==
    \/ StrLower(file.content_type) \in vision_image_types
    \/ StrLower(file.content_type) = "application/pdf" /\ file.ocr # Raised

\* extract_with_ai after the base extraction, for a file that does not reach
\* the vision call: the base result, with a warning when pdf2image raised
ExtractWithoutVision(file, base_result) ==
    IF StrLower(file.content_type) = "application/pdf" /\ file.ocr = Raised
    THEN AddWarning(base_result, "AI extraction failed: <library error>")
    ELSE base_result

(***************************************************************************)
(* DocumentService: profile reconciliation                                 *)
(***************************************************************************)
ALLOWED_DOCUMENT_TYPES ==
    {"passport", "visa", "i797", "i94", "ead", "green_card",
     "drivers_license", "birth_certificate", "marriage_certificate",
     "diploma", "transcript", "employment_letter", "pay_stub",
     "tax_return", "bank_statement", "lease_agreement", "utility_bill",
     "medical_record", "vaccination_record", "other"}

ALLOWED_FILE_TYPES ==
    {"application/pdf", "image/jpeg", "image/jpg", "image/png", "image/tiff", "image/webp"}

\* the columns of ImmigrationProfile that document ingestion can write
ProfileFields ==
    {"most_recent_i94_number", "most_recent_entry_date", "alien_registration_number",
     "current_priority_dates", "authorized_stay_until", "ead_expiry_date",
     "visa_expiry_date", "passport_number", "passport_expiry_date"}

\* DocumentService._parse_date_field(date_str)
ParseDateField(date_str) ==
    IF ~Truthy(date_str) THEN None
    ELSE IF IsStr(date_str)
         THEN LET parsed == Call("strptime", <<date_str>>) IN IF IsDate(parsed) THEN parsed ELSE None
    ELSE IF IsDate(date_str) THEN date_str
    ELSE None

\* 'i94' in validated_data.get('document_metadata', {}).get('document_type', '')
I94Metadata(validated_data) ==
    LET document_metadata == validated_data.document_metadata
    IN  /\ HasKey(document_metadata, "document_type")
        /\ IsStr(document_metadata["document_type"])
        /\ StrContains(document_metadata["document_type"].s, "i94")

\* should_update with `!=` for `>` in the expiry rule
ShouldUpdateOnChange(field, value, current_value, validated_data) ==
    IF current_value = None THEN TRUE
    ELSE IF field \in {"most_recent_entry_date", "most_recent_i94_number"} /\ I94Metadata(validated_data)
         THEN TRUE
    ELSE IF StrEndsWith(field, "_expiry_date") /\ IsDate(value) /\ IsDate(current_value)
         THEN value # current_value
    ELSE IF field \in {"passport_number", "alien_registration_number"} /\ ~Truthy(current_value)
         THEN TRUE
    ELSE FALSE

\* should_update with the identity rule taken for every current value
ShouldUpdateIdentity(field, value, current_value, validated_data) ==
    IF current_value = None THEN TRUE
    ELSE IF field \in {"most_recent_entry_date", "most_recent_i94_number"} /\ I94Metadata(validated_data)
         THEN TRUE
    ELSE IF StrEndsWith(field, "_expiry_date") /\ IsDate(value) /\ IsDate(current_value)
         THEN DateLater(value, current_value)
    ELSE IF field \in {"passport_number", "alien_registration_number"}
         THEN TRUE
    ELSE FALSE

\* should_update when it starts as True
ShouldUpdateByDefault(field, value, current_value, validated_data) ==
    IF current_value = None THEN TRUE
    ELSE IF field \in {"most_recent_entry_date", "most_recent_i94_number"} /\ I94Metadata(validated_data)
         THEN TRUE
    ELSE IF StrEndsWith(field, "_expiry_date") /\ IsDate(value) /\ IsDate(current_value)
         THEN DateLater(value, current_value)
    ELSE IF field \in {"passport_number", "alien_registration_number"}
         THEN ~Truthy(current_value)
    ELSE TRUE

\* the value of should_update in _update_profile_from_document
ShouldUpdate(field, value, current_value, validated_data) ==
    IF current_value = None THEN TRUE
    ELSE IF field \in {"most_recent_entry_date", "most_recent_i94_number"} /\ I94Metadata(validated_data)
         THEN TRUE
    ELSE IF StrEndsWith(field, "_expiry_date") /\ IsDate(value) /\ IsDate(current_value)
         THEN DateLater(value, current_value)
    ELSE IF field \in {"passport_number", "alien_registration_number"} /\ ~Truthy(current_value)
         THEN TRUE
    ELSE FALSE

\* the loop body of _update_profile_from_document for one entry of
\* profile_updates: the value the profile attribute holds afterwards
UpdatedField(current, field, profile_updates, validated_data) ==
    IF ~HasKey(profile_updates, field) \/ profile_updates[field] = None THEN current[field]
    ELSE LET raw == profile_updates[field]
             value == IF IsDateNamed(field) /\ IsStr(raw) THEN Call("_parse_date_field", <<raw>>) ELSE raw
         IN  IF ShouldUpdate(field, value, current[field], validated_data)
             THEN value ELSE current[field]

\* the priority-date special case of _update_profile_from_document
UpdatedPriorityDates(current, validated_data) ==
    IF ~HasKey(validated_data.extras, "priority_date_update") THEN current["current_priority_dates"]
    ELSE LET priority_update == validated_data.extras["priority_date_update"]
             current_priority_dates ==
                IF current["current_priority_dates"] = None THEN EmptyDict
                ELSE current["current_priority_dates"].entries
         IN  [t |-> "json",
              entries |-> DictSet(current_priority_dates, "general",
                                  [date |-> priority_update.date, source_document |-> "i797"])]

\* DocumentService._update_profile_from_document(profile, profile_updates,
\* validated_data): the attributes of the profile object afterwards
UpdateProfileFromDocument(current, profile_updates, validated_data) ==
    [field \in ProfileFields |->
        IF field = "current_priority_dates" THEN UpdatedPriorityDates(current, validated_data)
        ELSE UpdatedField(current, field, profile_updates, validated_data)]

(***************************************************************************)
(* DocumentService.upload_document                                         *)
(***************************************************************************)
\* the texts OCR and the PDF text layer give for the sample files
VisaText(expires) == "VISA Type: H-1B\nExpiration Date: " \o expires

PassportText == "PASSPORT No: X12345678\nDate of Expiry: 05/05/2030"

I94Text == "I-94 Number: 12345678901\nAdmit Until Date: 01/02/2025"

I94DsText == "I-94 Number: 12345678901\nAdmit Until Date: D/S"

EadText == "EAD (C09) 123-456-789\nCard Expires: 03/03/2026"

\* an I-94 with its admission date
I94EntryText(number, admitted) ==
    "I-94 Number: " \o number \o "\nAdmission Date: " \o admitted

BeneficiaryText == "I-797 Notice of Action\nBeneficiary: 123"

NoticeText ==
    "Receipt Number: WAC1234567890\nNotice of Approval\nValid from: 03/01/2024\n"
    \o "Valid to: 02/28/2027\nU.S. Citizenship and Immigration Services"

Image(content_type, text) == [content_type |-> content_type, ocr |-> text, text_layer |-> Raised]

Pdf(text_layer, ocr) == [content_type |-> "application/pdf", ocr |-> ocr, text_layer |-> text_layer]

\* an upload request of the model: the file, the document type the user
\* declares for it, and what fails while it is served ("storage": the
\* storage upload raises; "db": the commit raises; "refresh": db.refresh
\* after the commit raises)
Upload(file, document_type, fault) ==
    [file |-> file, document_type |-> document_type, fault |-> fault]

UploadSamples ==
    { Upload(Image("image/png", Str(VisaText("06/01/2025"))), "visa", "none"),
      Upload(Image("image/png", Str(VisaText("01/01/2024"))), "visa", "none"),
      Upload(Image("image/jpeg", Str(VisaText("01/01/2026"))), "visa", "none"),
      Upload(Image("image/png", Str(VisaText("01/01/2026"))), "visa", "storage"),
      Upload(Image("image/png", Str(VisaText("01/01/2026"))), "visa", "db"),
      Upload(Image("image/png", Str(VisaText("01/01/2026"))), "visa", "refresh"),
      Upload(Image("image/png", Str(PassportText)), "passport", "none"),
      Upload(Image("image/png", Str(I94Text)), "i94", "none"),
      Upload(Image("image/png", Str(I94EntryText("11111111111", "01/02/2023"))), "i94", "none"),
      Upload(Image("image/png", Str(I94EntryText("22222222222", "03/04/2024"))), "i94", "none"),
      Upload(Image("image/jpg", Str(EadText)), "ead", "none"),
      Upload(Image("image/png", Str(BeneficiaryText)), "i797", "none"),
      Upload(Image("image/png", Raised), "passport", "none"),
      Upload(Image("image/webp", Str(PassportText)), "passport", "none"),
      Upload(Image("text/plain", Str(PassportText)), "passport", "none"),
      Upload(Image("image/png", Str(PassportText)), "selfie", "none"),
      Upload(Image("image/png", Str(PassportText)), "birth_certificate", "none"),
      Upload(Pdf(Str(NoticeText), Raised), "i797", "none") }

\* the answers of the vision model: the text of the reply, or Raised when
\* the API call raises (network error, timeout, rate limit)
VisionAnswers ==
    { Raised,
      Str("Sorry, I cannot read this document."),
      Str("{\"document_type\": \"visa\", \"expiry_date\": \"2026-01-01\"}"),
      Str("Result: {\"expiry_date\": \"2024-01-01\"} done"),
      Str("See {\"expiry_date\": \"2024-01-01\"} or {}"),
      Str("{\"document_type\": \"i94\", \"admit_until_date\": \"D/S\"}"),
      Str("{\"document_type\": \"visa\", \"visa_type\": [\"B-1\", \"B-2\"]}"),
      Str("{\"document_type\": \"i797\", \"priority_date\": \"03/01/2024\"}"),
      Str("{\"document_type\": \"i797\", \"priority_date\": \"2020-01-15\"}"),
      Str("{\"document_type\": \"state_id\"}"),
      Str("{\"document_type\": \"ead\", \"uscis_number\": \"987-654-321\"}"),
      Str("{\"passport_number\": \"X1234567\", \"expiry_date\": \"2031-05-05\"}") }

\* the extract_from_file calls upload_document makes for the upload samples,
\* with the keyword table __init__ builds
SampleCalls == {<<InitDocumentKeywords, s.file, Str(s.document_type)>> : s \in UploadSamples}

\* what these calls return
SampleResults == [c \in SampleCalls |-> ExtractFromFileWith(c[1], c[2], c[3])]

\* the marker for `no vision call was made` in the call record
NotCalled == [t |-> "not called"]

Idle == [pc |-> "idle"]

\* upload_document returns (or raises HTTPException with) response
Return(committed, profile_object, response) ==
    [frame |-> Idle, committed |-> committed, profile |-> profile_object, response |-> response]

\* upload_document from map_extracted_data on, for the extracted_data that
\* extract_with_ai returned: the response, the profile object's attributes,
\* and whether the transaction commits
Finish(snapshot, sample, document_id, extracted_data) ==
    LET final_document_type ==
            IF Truthy(extracted_data["document_type"]) THEN extracted_data["document_type"]
            ELSE Str(sample.document_type)
        mapped_data == Call("map_extracted_data", <<extracted_data, final_document_type>>)
        validated_data == Call("validate_mapping_data", <<mapped_data>>)
        doc_metadata == validated_data.document_metadata
        get(key) == IF HasKey(doc_metadata, key) THEN doc_metadata[key] ELSE None
        db_document ==
            [document_id |-> document_id,
             document_type |-> final_document_type,
             document_subtype |-> get("document_subtype"),
             document_number |-> get("document_number"),
             issuing_authority |-> get("issuing_authority"),
             related_immigration_type |-> get("related_immigration_type"),
             issue_date |-> Call("_parse_date_field", <<get("issue_date")>>),
             expiry_date |-> Call("_parse_date_field", <<get("expiry_date")>>),
             s3_key |-> document_id,
             file_type |-> sample.file.content_type]
        profile_updates == validated_data.profile_updates
        updated ==
            IF DOMAIN profile_updates # {}
            THEN Call("_update_profile_from_document", <<snapshot, profile_updates, validated_data>>)
            ELSE snapshot
    IN  IF mapped_data = Raised \/ sample.fault = "db"
        THEN Return(FALSE, snapshot, [status |-> 500])
        ELSE IF sample.fault = "refresh"
        THEN Return(TRUE, updated, [status |-> 500])
        ELSE Return(TRUE,
                    updated,
                    [status |-> 200,
                     document |-> db_document,
                     extracted_data |-> extracted_data,
                     mapped_data |-> validated_data,
                     warnings |-> extracted_data["warnings"].items \o validated_data.warnings])

\* upload_document(user_id, file, document_data) up to its return or, when
\* extract_with_ai calls the vision model, up to that await.  self holds the
\* state the call reads: document_keywords, ai_client and the profile row.
UploadDocumentCall(self, sample, document_id) ==
    LET base_result ==
            Call("extract_from_file", <<self.document_keywords, sample.file, Str(sample.document_type)>>)
    IN  IF \/ sample.document_type \notin ALLOWED_DOCUMENT_TYPES
           \/ sample.file.content_type \notin ALLOWED_FILE_TYPES
        THEN Return(FALSE, self.profile, [status |-> 400])
        ELSE IF sample.fault = "storage"
        THEN Return(FALSE, self.profile, [status |-> 500])
        ELSE IF self.ai_client = "none"
        THEN Finish(self.profile, sample, document_id, base_result)
        ELSE IF ReachesVision(sample.file)
        THEN [frame |-> [pc |-> "vision", sample |-> sample, snapshot |-> self.profile,
                         document_id |-> document_id, base_result |-> base_result],
              committed |-> FALSE, profile |-> self.profile, response |-> None]
        ELSE Finish(self.profile, sample, document_id, ExtractWithoutVision(sample.file, base_result))

\* upload_document from the vision model's answer to the call of frame
\* (response; Raised: the call raises) to its return
UploadDocumentResume(frame, response) ==
    Finish(frame.snapshot, frame.sample, frame.document_id,
           Call("_merge_results", <<frame.base_result, Call("_extract_with_vision", <<response>>)>>))

(***************************************************************************)
(* The callable functions                                                  *)
(***************************************************************************)
\* function(*args).  A method that reads self.document_keywords takes the
\* keyword table as its first argument; upload_document takes the state it
\* reads.  extract_from_file looks its result up when the call is one of
\* SampleCalls.
Call(function, args) ==
    CASE function = "re.search" -> ReSearch(args[1], args[2], args[3])
      [] function = "strptime" -> Strptime(args[1])
      [] function = "_detect_document_type" -> DetectWith(args[1], args[2])
      [] function = "_parse_date_match" -> ParseDateMatch(args[1])
      [] function = "_extract_date" -> ExtractDate(args[1], args[2])
      [] function = "_extract_name" -> ExtractName(args[1])
      [] function = "_extract_field" -> ExtractField(args[1], args[2])
      [] function = "_extract_passport_data" -> ExtractPassportData(args[1], args[2])
      [] function = "_extract_visa_data" -> ExtractVisaData(args[1], args[2])
      [] function = "_extract_i94_data" -> ExtractI94Data(args[1], args[2])
      [] function = "_extract_i797_data" -> ExtractI797Data(args[1], args[2])
      [] function = "_extract_ead_data" -> ExtractEadData(args[1], args[2])
      [] function = "_extract_generic_data" -> ExtractGenericData(args[1], args[2])
      [] function = "_extract_structured_data" -> ExtractStructuredData(args[1], args[2])
      [] function = "_extract_from_image" -> ExtractFromImageWith(args[1], args[2], args[3])
      [] function = "_extract_from_pdf" -> ExtractFromPdfWith(args[1], args[2], args[3])
      [] function = "extract_from_file" ->
            IF args \in SampleCalls THEN SampleResults[args]
            ELSE ExtractFromFileWith(args[1], args[2], args[3])
      [] function = "_parse_ai_response" -> ParseAiResponse(args[1])
      [] function = "_extract_with_vision" -> ExtractWithProvider(args[1])
      [] function = "_merge_results" -> MergeResults(args[1], args[2])
      [] function = "_create_generic_mapping" -> CreateGenericMapping(args[1])
      [] function = "_apply_document_specific_logic" ->
            ApplyDocumentSpecificLogic(args[1], args[2], args[3])
      [] function = "map_extracted_data" -> MapExtractedData(args[1], args[2])
      [] function = "validate_mapping_data" -> ValidateMappingData(args[1])
      [] function = "_parse_date_field" -> ParseDateField(args[1])
      [] function = "_update_profile_from_document" ->
            UpdateProfileFromDocument(args[1], args[2], args[3])
      [] function = "upload_document" -> UploadDocumentCall(args[1], args[2], args[3])
      [] function = "upload_document (resumed)" -> UploadDocumentResume(args[1], args[2])

auth_vars == <<utcnow, issued>>

vars == <<document_keywords, op, arg, ret, memo, ai_client, profile, documents, storage,
          uploads, requests, auth_vars>>

\* upload_document calls in one behaviour
MaxUploads == 2

\* the request slots; one slot serves the uploads that run one after another
Slots == {1, 2}

\* a profile as the registration flow creates it
EmptyProfile == [field \in ProfileFields |-> None]

\* the services after construction
ServicesInit ==
    /\ document_keywords = InitDocumentKeywords
    /\ ai_client \in {"none", "openai", "anthropic"}
    /\ profile = EmptyProfile
    /\ documents = {}
    /\ storage = {}
    /\ uploads = 0
    /\ requests = [r \in Slots |-> Idle]
    /\ utcnow = 0
    /\ issued = EmptyDict

Init ==
    /\ ServicesInit
    /\ op = "init"
    /\ arg = None
    /\ ret = None
    /\ memo = None

\* db.commit() of the request's session: the attributes the request changed
\* on its profile object are written to the row
Committed(snapshot, changed) ==
    [field \in ProfileFields |->
        IF changed[field] # snapshot[field] THEN changed[field] ELSE profile[field]]

\* what upload_document leaves behind when it stops with out (at its return
\* or at the await): the call record, the request slot, the committed rows
\* and the stored file, which the except branch deletes again
Leave(r, sample, vision, document_id, snapshot, out) ==
    /\ op' = "upload_document"
    /\ arg' = [sample |-> sample, vision |-> vision]
    /\ ret' = out.response
    /\ requests' = [requests EXCEPT ![r] = out.frame]
    /\ profile' = IF out.committed THEN Committed(snapshot, out.profile) ELSE profile
    /\ documents' = IF out.committed THEN documents \cup {document_id} ELSE documents
    /\ storage' = IF out.frame.pc = "vision" \/ (out.committed /\ out.response.status = 200)
                  THEN storage \cup {document_id} ELSE storage \ {document_id}

\* upload_document(user_id, file, document_data) in request slot r, up to its
\* return or, when extract_with_ai calls the vision model, up to that await
UploadDocument(r, sample) ==
    /\ requests[r].pc = "idle"
    /\ uploads < MaxUploads
    /\ uploads' = uploads + 1
    /\ Leave(r, sample, NotCalled, uploads + 1, profile,
             Call("upload_document",
                  <<[document_keywords |-> document_keywords, ai_client |-> ai_client,
                     profile |-> profile], sample, uploads + 1>>))
    /\ UNCHANGED <<document_keywords, memo, ai_client, auth_vars>>

\* the vision model answers the call of request slot r with `response`
\* (Raised: the call raises); upload_document runs on to its return
VisionReply(r, response) ==
    /\ requests[r].pc = "vision"
    /\ Leave(r, requests[r].sample, response, requests[r].document_id, requests[r].snapshot,
             Call("upload_document (resumed)", <<requests[r], response>>))
    /\ UNCHANGED <<document_keywords, memo, ai_client, uploads, auth_vars>>

\* uploads that run one after another, all in slot 1
Next ==
    \/ \E sample \in UploadSamples : UploadDocument(1, sample)
    \/ \E response \in VisionAnswers : VisionReply(1, response)

Spec == Init /\ [][Next]_vars

\* the profile fields named *_expiry_date
ExpiryFields == {"passport_expiry_date", "visa_expiry_date", "ead_expiry_date"}

\* an upload of the visa that expires on `expires` has just returned 200
\* without a vision call
VisaIngested(expires) ==
    /\ op' = "upload_document"
    /\ arg'.vision = NotCalled
    /\ arg'.sample.file.ocr = Str(VisaText(expires))
    /\ ret' # None
    /\ ret'.status = 200

\* C2: over any sequence of ingestions into one profile, a *_expiry_date
\* field that holds a date is overwritten only by a strictly later date, so
\* it never moves back: visa_expiry_date 2025-06-01 stays under an incoming
\* 2024-01-01 and becomes 2026-01-01 under an incoming 2026-01-01.
C2_ExpiryNeverEarlier ==
    [][/\ \A f \in ExpiryFields :
             IsDate(profile[f]) =>
                \/ profile'[f] = profile[f]
                \/ IsDate(profile'[f]) /\ DateLater(profile'[f], profile[f])
       /\ (profile["visa_expiry_date"] = MakeDate(2025, 6, 1) /\ VisaIngested("01/01/2024"))
             => profile'["visa_expiry_date"] = MakeDate(2025, 6, 1)
       /\ (profile["visa_expiry_date"] = MakeDate(2025, 6, 1) /\ VisaIngested("01/01/2026"))
             => profile'["visa_expiry_date"] = MakeDate(2026, 1, 1)]_vars

\* the visa that expires 2024-01-01 was ingested second and left 2025-06-01
C2_Witness ==
    /\ op = "upload_document"
    /\ arg.sample.file.ocr = Str(VisaText("01/01/2024"))
    /\ ret # None
    /\ ret.status = 200
    /\ documents = {1, 2}
    /\ profile["visa_expiry_date"] = MakeDate(2025, 6, 1)

\* C3: when the vision response carries admit_until_date = "D/S", the record
\* extract_with_ai returns has admit_until_date unset and at least one
\* warning, whatever the regex extraction found.
C3_DurationOfStatus ==
    (/\ op = "upload_document"
     /\ arg.vision = Str("{\"document_type\": \"i94\", \"admit_until_date\": \"D/S\"}")
     /\ ret # None
     /\ ret.status = 200) =>
        /\ ret.extracted_data["admit_until_date"] = None
        /\ ret.extracted_data["warnings"].items # <<>>

\* C9: no failure inside the pipeline reaches its caller or fails the
\* upload: an upload that is accepted and meets no storage or database
\* fault returns a result with a warnings list.
C9_NoPipelineFailure ==
    (/\ op = "upload_document"
     /\ ret # None
     /\ arg.sample.fault = "none"
     /\ arg.sample.document_type \in ALLOWED_DOCUMENT_TYPES
     /\ arg.sample.file.content_type \in ALLOWED_FILE_TYPES) =>
        ret.status = 200

\* C10: when no vision client is configured, when the vision call raises and
\* when its answer holds no JSON object, every data field of the record
\* extract_with_ai returns equals the field of the regex-based record.
C10_FallbackIsRegexRecord ==
    (/\ op = "upload_document"
     /\ ret # None
     /\ ret.status = 200
     /\ \/ arg.vision = NotCalled
        \/ arg.vision = Raised
        \/ arg.vision = Str("Sorry, I cannot read this document.")) =>
        \A f \in DataFields :
            ret.extracted_data[f] =
                Call("extract_from_file",
                     <<document_keywords, arg.sample.file, Str(arg.sample.document_type)>>)[f]

\* an upload has just returned 200
Uploaded == op = "upload_document" /\ ret # None /\ ret.status = 200

\* C11: when an I-94 is ingested into a profile whose most_recent_entry_date
\* and most_recent_i94_number already hold values, both are overwritten with
\* the new I-94's values: after an I-94 ingestion they hold the values of
\* the I-94 ingested last.
C11_NewestI94Wins ==
    (Uploaded /\ ret.document.document_type = Str("i94")) =>
        LET profile_updates == ret.mapped_data.profile_updates
        IN  /\ HasKey(profile_updates, "most_recent_i94_number") =>
                  profile["most_recent_i94_number"] = profile_updates["most_recent_i94_number"]
            /\ HasKey(profile_updates, "most_recent_entry_date") =>
                  profile["most_recent_entry_date"] =
                      Call("_parse_date_field", <<profile_updates["most_recent_entry_date"]>>)

\* the profile fields written once
IdentityFields == {"passport_number", "alien_registration_number"}

\* C12: once passport_number or alien_registration_number holds a non-empty
\* value, no later document ingestion changes it.
C12_IdentityWrittenOnce ==
    [][\A f \in IdentityFields : Truthy(profile[f]) => profile'[f] = profile[f]]_vars

\* a second document carrying another passport number was ingested and the
\* first number stayed
C12_Witness ==
    /\ Uploaded
    /\ documents = {1, 2}
    /\ HasKey(ret.mapped_data.profile_updates, "passport_number")
    /\ ret.mapped_data.profile_updates["passport_number"] = Str("X1234567")
    /\ profile["passport_number"] = Str("X12345678")

\* every date field of data is a calendar date or unset
DatesOrUnset(data) == \A f \in DateFields : data[f] = None \/ IsDate(data[f])

\* C13: in every ExtractedData that regex extraction, vision-response parsing
\* or the merge produces, each date field is a calendar date or unset; no
\* string such as "D/S" is stored in one.
C13_DateFieldsAreDates ==
    (op = "upload_document" /\ ret # None) =>
        /\ DatesOrUnset(Call("extract_from_file",
                             <<document_keywords, arg.sample.file, Str(arg.sample.document_type)>>))
        /\ arg.vision # NotCalled => DatesOrUnset(Call("_extract_with_vision", <<arg.vision>>))
        /\ ret.status = 200 => DatesOrUnset(ret.extracted_data)

\* the vision model answered "D/S" for admit_until_date and the upload returned
C13_Witness ==
    /\ Uploaded
    /\ arg.vision = Str("{\"document_type\": \"i94\", \"admit_until_date\": \"D/S\"}")
    /\ ret.extracted_data["warnings"].items # <<>>

\* the document types the pipeline is specified to consume and produce
PipelineDocumentTypes ==
    {"passport", "visa", "i94", "i797", "ead", "green_card", "drivers_license", "other"}

\* C14: the document_type of every record the pipeline returns and of every
\* document row the upload persists is unset or one of passport, visa, i94,
\* i797, ead, green_card, drivers_license, other, whatever the caller's hint
\* and the vision response contain.
C14_ClosedTypeSet ==
    Uploaded =>
        /\ ret.extracted_data["document_type"] \in {None} \cup {Str(T) : T \in PipelineDocumentTypes}
        /\ ret.document.document_type \in {None} \cup {Str(T) : T \in PipelineDocumentTypes}

\* the MIME types the pipeline is specified to support
PipelineFileTypes ==
    {"application/pdf", "image/jpeg", "image/png", "image/tiff", "image/webp"}

\* C15: every MIME type outside application/pdf, image/jpeg, image/png,
\* image/tiff, image/webp is rejected before the pipeline runs, and
\* extract_from_file never ends in an unsupported-file-type result for an
\* accepted upload.
C15_AcceptedFilesAreProcessed ==
    (op = "upload_document" /\ ret # None) =>
        /\ arg.sample.file.content_type \notin PipelineFileTypes => ret.status = 400
        /\ ret.status = 200 =>
              \A i \in DOMAIN ret.warnings :
                  ret.warnings[i] # "Extraction error: Unsupported file type: "
                                        \o arg.sample.file.content_type

\* C18: priority dates are recorded additively: after an I-797 whose
\* extraction has a priority_date is ingested, the profile's recorded
\* priority dates hold the new one, and no recorded priority date is removed.
C18_PriorityDatesAdditive ==
    (Uploaded /\ ret.document.document_type = Str("i797")
        /\ IsDate(ret.extracted_data["priority_date"])) =>
        profile["current_priority_dates"] # None

(***************************************************************************)
(* upload_document and the vision provider                                 *)
(***************************************************************************)
\* the server serves an upload request: one it rejects (a step enabled
\* whenever serving is), or any other
Serve ==
    \/ UploadDocument(1, Upload(Image("text/plain", Str(PassportText)), "passport", "none"))
    \/ \E sample \in UploadSamples : UploadDocument(1, sample)

\* the uploads one after another on a server that serves every request it
\* is sent.  The answer of the vision provider is not the server's step: the
\* clients are created without a timeout (AIConfig.AI_TIMEOUT is read
\* nowhere) and the call is awaited without one.
SpecServed == Spec /\ WF_vars(Serve)

ConcurrentSamples ==
    { Upload(Image("image/png", Str(VisaText("06/01/2025"))), "visa", "none"),
      Upload(Image("image/jpeg", Str(VisaText("01/01/2026"))), "visa", "none"),
      Upload(Image("image/png", Str(PassportText)), "passport", "none"),
      Upload(Image("image/jpg", Str(EadText)), "ead", "none") }

ConcurrentAnswers ==
    { Raised,
      Str("{\"document_type\": \"visa\", \"expiry_date\": \"2026-01-01\"}"),
      Str("{\"passport_number\": \"X1234567\", \"expiry_date\": \"2031-05-05\"}") }

\* the event loop runs either request up to its next await or its return
NextConcurrent ==
    \E r \in Slots :
        \/ \E sample \in ConcurrentSamples : UploadDocument(r, sample)
        \/ \E response \in ConcurrentAnswers : VisionReply(r, response)

SpecConcurrent == Init /\ [][NextConcurrent]_vars

\* the profile row after upload_document has served call on its own, from
\* the row current
Alone(current, call) ==
    LET first == Call("upload_document",
                      <<[document_keywords |-> document_keywords, ai_client |-> ai_client,
                         profile |-> current], call.sample, 0>>)
        out == IF first.frame.pc = "vision"
               THEN Call("upload_document (resumed)", <<first.frame, call.vision>>)
               ELSE first
    IN  IF out.committed THEN out.profile ELSE current

\* C20: two uploads for one profile that interleave at their await points
\* are safe: when the second of them commits, the profile equals the one
\* that some serial order of the two uploads produces.
C20_ConcurrentUploadsSerialize ==
    [][(Uploaded /\ Cardinality(documents) = 1 /\ Cardinality(documents') = 2) =>
          profile' \in {Alone(Alone(EmptyProfile, arg), arg'),
                        Alone(Alone(EmptyProfile, arg'), arg)}]_vars

\* C21: a visa whose extracted visa type is "H1B" or "H-1B" is stored with
\* the related_immigration_type "H-1B".
C21_VisaTypeCanonical ==
    (/\ Uploaded
     /\ ret.document.document_type = Str("visa")
     /\ IsStr(ret.extracted_data["visa_type"])
     /\ StrUpper(ret.extracted_data["visa_type"].s) \in {"H1B", "H-1B"})
        => ret.document.related_immigration_type = Str("H-1B")

\* the number of c in content[lo..hi]
CountChar(content, c, lo, hi) ==
    Cardinality({i \in lo..hi : CharAt(content, i) = c})

\* the first balanced {...} block of content: from the first "{" to the
\* first "}" that closes it; None when there is none
FirstBalancedBlock(content) ==
    LET start == StrFind(content, "{") + 1
        ends == {e \in start..Len(content) :
                    CountChar(content, "{", start, e) = CountChar(content, "}", start, e)}
    IN  IF start = 0 \/ ends = {} THEN None
        ELSE Str(SubSeq(content, start, CHOOSE e \in ends : \A x \in ends : e <= x))

\* C22: when the first balanced {...} block of a vision answer is a JSON
\* object, the upload returns what merging the parse of that object into the
\* regex-based record gives, whatever follows the block.
C22_FirstBalancedBlockParsed ==
    [][(/\ requests[1].pc = "vision"
        /\ op' = "upload_document"
        /\ IsStr(arg'.vision)
        /\ FirstBalancedBlock(arg'.vision.s) # None
        /\ FirstBalancedBlock(arg'.vision.s).s \in DOMAIN json_documents)
          => ret' = Finish(requests[1].snapshot, requests[1].sample, requests[1].document_id,
                           MergeResults(requests[1].base_result,
                                        ParseAiResponse(json_documents[FirstBalancedBlock(arg'.vision.s).s]))).response]_vars

\* C29: when a step of upload_document after the input validation raises,
\* the caller gets HTTP 500, no document row and no profile change of the
\* upload is committed, and the stored file is gone again.
C29_FailedUploadLeavesNothing ==
    [][(/\ op' = "upload_document"
        /\ ret' # None
        /\ arg'.sample.fault # "none" \/ ret'.status = 500)
          => /\ ret'.status = 500
             /\ profile' = profile
             /\ documents' = documents
             /\ (IF requests[1].pc = "vision" THEN requests[1].document_id ELSE uploads')
                    \notin storage']_vars

(***************************************************************************)
(* The functions on their own: Init draws the input, the action calls the  *)
(* function once                                                           *)
(***************************************************************************)
\* the services after construction, without a vision client, before a call
\* on one of inputs
FunctionInit(inputs) ==
    /\ ServicesInit
    /\ ai_client = "none"
    /\ op = "init"
    /\ arg \in inputs
    /\ ret = None
    /\ memo = None

\* the call of function on the input returns result
Apply(function, result) ==
    /\ op = "init"
    /\ op' = function
    /\ ret' = result
    /\ UNCHANGED <<document_keywords, arg, memo, ai_client, profile, documents, storage,
                   uploads, requests, auth_vars>>

(***************************************************************************)
(* _merge_results                                                          *)
(***************************************************************************)
\* the values a field holds in the merge inputs
MergeValues(field) ==
    IF field \in DateFields THEN {None, MakeDate(2024, 1, 1), MakeDate(2026, 1, 1)}
    ELSE {None, Str(""), Str("A"), Str("B")}

\* a base and a vision record that are ExtractedData() but for one data field
MergeInputs ==
    UNION {{[field |-> f, base_value |-> b, ai_value |-> a] :
                b \in MergeValues(f), a \in MergeValues(f)} : f \in DataFields}

InitMerge == FunctionInit(MergeInputs)

MergeResultsCall ==
    Apply("_merge_results",
          Call("_merge_results", <<[ExtractedData EXCEPT ![arg.field] = arg.base_value],
                                   [ExtractedData EXCEPT ![arg.field] = arg.ai_value]>>))

NextMerge == MergeResultsCall

SpecMerge == InitMerge /\ [][NextMerge]_vars

\* a field value is unset when it is None or the empty string
Unset(v) == v = None \/ v = Str("")

\* C1: after _merge_results(base, vision), a data field that vision leaves
\* unset (None or "") and base has set holds base's value, and a field both
\* have set to different values holds vision's value.
C1_MergePrecedence ==
    op = "_merge_results" =>
        /\ (Unset(arg.ai_value) /\ ~Unset(arg.base_value)) => ret[arg.field] = arg.base_value
        /\ (~Unset(arg.ai_value) /\ ~Unset(arg.base_value) /\ arg.ai_value # arg.base_value)
              => ret[arg.field] = arg.ai_value

\* vision's "" gave way to base's value
C1_Witness ==
    /\ op = "_merge_results"
    /\ arg.ai_value = Str("")
    /\ arg.base_value = Str("A")
    /\ ret[arg.field] = Str("A")

(***************************************************************************)
(* map_extracted_data                                                      *)
(***************************************************************************)
\* extracted data that differ in the four generic fields and in one other
\* field, for two types without a mapping table and one with
MapperInputs ==
    {[document_type |-> Str(t),
      extracted_data |-> [ExtractedData EXCEPT
                            !["document_number"] = n, !["issue_date"] = i, !["expiry_date"] = e,
                            !["issuing_authority"] = a, !["passport_number"] = p]] :
        t \in {"other", "birth_certificate", "passport"},
        n \in {None, Str(""), Str("D1")},
        i \in {None, MakeDate(2024, 3, 1)},
        e \in {None, MakeDate(2027, 2, 28)},
        a \in {None, Str("USCIS")},
        p \in {None, Str("X12345678")}}

InitMapper == FunctionInit(MapperInputs)

MapExtractedDataCall ==
    Apply("map_extracted_data",
          Call("map_extracted_data", <<arg.extracted_data, arg.document_type>>))

NextMapper == MapExtractedDataCall

SpecMapper == InitMapper /\ [][NextMapper]_vars

GenericKeys == {"document_number", "issue_date", "expiry_date", "issuing_authority"}

\* C8: for a document type without a mapping table, map_extracted_data
\* returns a document_metadata that is non-empty when one of document_number,
\* issue_date, expiry_date, issuing_authority is set, that holds no other key,
\* an empty profile_updates, and a generic-mapping warning.
C8_GenericMapping ==
    (op = "map_extracted_data" /\ ~HasMapping(arg.document_type)) =>
        /\ (\E f \in GenericKeys : arg.extracted_data[f] # None)
              => DOMAIN ret.document_metadata # {}
        /\ DOMAIN ret.document_metadata \subseteq GenericKeys
        /\ DOMAIN ret.profile_updates = {}
        /\ \E w \in 1..Len(ret.warnings) :
              StrContains(StrLower(ret.warnings[w]), "generic mapping")

\* an unmapped type with only issuing_authority set
C8_Witness ==
    /\ op = "map_extracted_data"
    /\ arg.document_type = Str("birth_certificate")
    /\ \A f \in GenericKeys : (arg.extracted_data[f] # None) <=> (f = "issuing_authority")
    /\ arg.extracted_data["passport_number"] # None
    /\ DOMAIN ret.document_metadata = {"issuing_authority"}

(***************************************************************************)
(* extract_from_file without a hint, and _extract_date                     *)
(***************************************************************************)
\* the four items of a synthetic I-797 approval notice
NoticePhrases ==
    <<"Receipt Number: WAC1234567890", "Notice of Approval",
      "Valid from: 03/01/2024", "Valid to: 02/28/2027">>

\* the orders the items can come in
PhraseOrders ==
    {p \in [DOMAIN NoticePhrases -> DOMAIN NoticePhrases] :
        \A i, j \in DOMAIN NoticePhrases : p[i] = p[j] => i = j}

\* the notices: the items in any order, one per line or all on one line
NoticeTexts ==
    {NoticePhrases[p[1]] \o sep \o NoticePhrases[p[2]] \o sep
        \o NoticePhrases[p[3]] \o sep \o NoticePhrases[p[4]] :
        p \in PhraseOrders, sep \in {"\n", " "}}

\* the date formats _extract_date is meant to read
DateFormats ==
    {"MM/DD/YYYY", "MM-DD-YYYY", "DD MMM YYYY", "MMM DD, YYYY",
     "MM/DD/YY", "MM-DD-YY", "DD MMM YY", "MMM DD, YY"}

\* date as a document prints it in format
WriteDate(format, date) ==
    LET mm == ZeroPad(date.m, 2)
        dd == ZeroPad(date.d, 2)
        mmm == MonthNames[date.m]
        yyyy == ZeroPad(date.y, 4)
        yy == ZeroPad(date.y % 100, 2)
    IN  CASE format = "MM/DD/YYYY"   -> mm \o "/" \o dd \o "/" \o yyyy
          [] format = "MM-DD-YYYY"   -> mm \o "-" \o dd \o "-" \o yyyy
          [] format = "DD MMM YYYY"  -> dd \o " " \o mmm \o " " \o yyyy
          [] format = "MMM DD, YYYY" -> mmm \o " " \o dd \o ", " \o yyyy
          [] format = "MM/DD/YY"     -> mm \o "/" \o dd \o "/" \o yy
          [] format = "MM-DD-YY"     -> mm \o "-" \o dd \o "-" \o yy
          [] format = "DD MMM YY"    -> dd \o " " \o mmm \o " " \o yy
          [] format = "MMM DD, YY"   -> mmm \o " " \o dd \o ", " \o yy

\* dates whose two-digit year reads back as the same year
PrintedDates ==
    {MakeDate(2023, 1, 15), MakeDate(1998, 1, 5), MakeDate(2029, 12, 31), MakeDate(1930, 12, 31)}

ExtractionInputs ==
    {[function |-> "extract_from_file", file |-> Image("image/png", Str(t))] : t \in NoticeTexts}
    \cup {[function |-> "_extract_date", text |-> "issued " \o WriteDate(f, d),
           keywords |-> <<"issued">>, format |-> f, expected |-> d] :
            f \in DateFormats, d \in PrintedDates}

InitExtraction == FunctionInit(ExtractionInputs)

\* extract_from_file(file_content, file_type) with no document_type_hint
ExtractFromFileCall ==
    /\ arg.function = "extract_from_file"
    /\ Apply("extract_from_file", Call("extract_from_file", <<document_keywords, arg.file, None>>))

ExtractDateCall ==
    /\ arg.function = "_extract_date"
    /\ Apply("_extract_date", Call("_extract_date", <<arg.text, arg.keywords>>))

NextExtraction == ExtractFromFileCall \/ ExtractDateCall

SpecExtraction == InitExtraction /\ [][NextExtraction]_vars

\* C4: detection and regex extraction, with no hint and no vision, on a text
\* that holds "Receipt Number: WAC1234567890", "Notice of Approval",
\* "Valid from: 03/01/2024" and "Valid to: 02/28/2027" give document_type
\* i797, receipt_number WAC1234567890, notice_type APPROVAL, validity_from
\* 2024-03-01, validity_to 2027-02-28 and no warning.
C4_ApprovalNotice ==
    op = "extract_from_file" =>
        /\ ret["document_type"] = Str("i797")
        /\ ret["receipt_number"] = Str("WAC1234567890")
        /\ ret["notice_type"] = Str("APPROVAL")
        /\ ret["validity_from"] = MakeDate(2024, 3, 1)
        /\ ret["validity_to"] = MakeDate(2027, 2, 28)
        /\ ret["warnings"] = List(<<>>)

\* the notice on one line, "Valid to" first, has been extracted
C4_Witness ==
    /\ op = "extract_from_file"
    /\ arg.file.ocr = Str("Valid to: 02/28/2027 Receipt Number: WAC1234567890 "
                          \o "Valid from: 03/01/2024 Notice of Approval")
    /\ ret["validity_from"] = MakeDate(2024, 3, 1)
    /\ ret["document_type"] = Str("i797")

\* C5: _extract_date on a line that holds a labelling keyword followed by a
\* date in a supported format (MM/DD/YYYY, MM-DD-YYYY, DD MMM YYYY,
\* MMM DD, YYYY, and the two-digit-year variants, yy < 30 read as 20yy and
\* yy >= 30 as 19yy) returns that calendar date; "issued 15 JAN 23" gives
\* 2023-01-15 and "JAN 05, 1998" gives 1998-01-05.
C5_DateFormats ==
    op = "_extract_date" => ret = arg.expected

(***************************************************************************)
(* _detect_document_type on a text and on the text with one more keyword   *)
(***************************************************************************)
\* texts to add a keyword to
ScoreBases == {"", "passport number", "visa", "I-94 admission number", "work permit EAD"}

\* every high-priority keyword, with its type
HighPriorityKeywords ==
    UNION {{[type |-> InitDocumentKeywords[i].type, keyword |-> InitDocumentKeywords[i].high_priority[j]] :
                j \in DOMAIN InitDocumentKeywords[i].high_priority} : i \in DOMAIN InitDocumentKeywords}

\* a base text and the text with one further high-priority keyword on it
ScoreInputs ==
    UNION {{[base |-> b, type |-> k.type, keyword |-> k.keyword, text |-> b \o sep \o k.keyword] :
                k \in {h \in HighPriorityKeywords : ~StrContains(StrLower(b), h.keyword)},
                sep \in {" ", "\n"}} : b \in ScoreBases}

InitScore == FunctionInit(ScoreInputs)

\* _detect_document_type(base), then _detect_document_type(text)
DetectBothCall ==
    Apply("_detect_document_type",
          [before |-> DetectDocumentType(arg.base), after |-> DetectDocumentType(arg.text)])

NextScore == DetectBothCall

SpecScore == InitScore /\ [][NextScore]_vars

\* the highest score in scores
TopScore(scores) == CHOOSE s \in {scores[T] : T \in DOMAIN scores} : \A T \in DOMAIN scores : scores[T] <= s

\* C6: adding to a text one further high-priority keyword of type T never
\* decreases T's score, and never makes T the winner when T's score was more
\* than 10 points below the winning type's score before.
C6_ScoreMonotonicity ==
    op = "_detect_document_type" =>
        /\ DetectScores(arg.text)[arg.type] >= DetectScores(arg.base)[arg.type]
        /\ TopScore(DetectScores(arg.base)) - DetectScores(arg.base)[arg.type] > 10
              => ret.after # Str(arg.type)

(***************************************************************************)
(* _detect_document_type among other calls                                 *)
(***************************************************************************)
DetectTexts ==
    {"", "passport visa", "blog post article tutorial", "driver license", "uscis# receipt number",
     PassportText, I94Text, EadText, NoticeText, VisaText("01/01/2026")}

\* the calls made besides: extract_from_file with the declared type as hint
OtherCalls == {s \in UploadSamples : s.document_type \in {"passport", "ead"} /\ s.fault = "none"}

InitDetect == Init /\ ai_client = "none"

\* what memo holds after a call: what it held, or the call before this one
\* when that was a _detect_document_type call
Remember ==
    memo' \in {memo} \cup (IF op = "_detect_document_type"
                           THEN {[t |-> "call", arg |-> arg, ret |-> ret]} ELSE {})

DetectDocumentTypeCall(text) ==
    /\ op' = "_detect_document_type"
    /\ arg' = Str(text)
    /\ ret' = DetectDocumentType(text)
    /\ Remember
    /\ UNCHANGED <<document_keywords, ai_client, profile, documents, storage, uploads, requests,
                   auth_vars>>

ExtractWithHintCall(sample) ==
    /\ op' = "extract_from_file"
    /\ arg' = sample
    /\ ret' = Call("extract_from_file", <<document_keywords, sample.file, Str(sample.document_type)>>)
    /\ Remember
    /\ UNCHANGED <<document_keywords, ai_client, profile, documents, storage, uploads, requests,
                   auth_vars>>

NextDetect ==
    \/ \E text \in DetectTexts : DetectDocumentTypeCall(text)
    \/ \E sample \in OtherCalls : ExtractWithHintCall(sample)

SpecDetect == InitDetect /\ [][NextDetect]_vars

ReversedKeywords ==
    [i \in DOMAIN document_keywords |-> document_keywords[Len(document_keywords) + 1 - i]]

\* C16: _detect_document_type returns a type T only when T's total is
\* strictly higher than every other type's total, and the result does not
\* depend on the order in which the types are listed, ties included.
C16_StrictlyHighestWins ==
    (op = "_detect_document_type" /\ ret # None /\ ret # Str("other")) =>
        /\ \A T \in DOMAIN DetectScores(arg.s) \ {ret.s} :
              DetectScores(arg.s)[T] < DetectScores(arg.s)[ret.s]
        /\ ret = Call("_detect_document_type", <<ReversedKeywords, arg.s>>)

\* the total of one type when every tier entry is matched in any letter case
CaseInsensitiveScore(keyword_data, text) ==
    10 * Cardinality({j \in 1..Len(keyword_data.high_priority) :
                         StrContains(StrLower(text), StrLower(keyword_data.high_priority[j]))})
    + 5 * Cardinality({j \in 1..Len(keyword_data.medium_priority) :
                         StrContains(StrLower(text), StrLower(keyword_data.medium_priority[j]))})
    + 15 * Cardinality({j \in 1..Len(keyword_data.patterns) :
                         Call("re.search", <<keyword_data.patterns[j], text, TRUE>>).ok})

\* C17: every tier entry is matched case-insensitively: a structural pattern
\* adds 15 to its type whenever it matches the text in any letter case, so a
\* text holding WAC1234567890 gets the weight of i797's receipt-number
\* pattern.
C17_CaseInsensitiveTiers ==
    op = "_detect_document_type" =>
        \A i \in DOMAIN document_keywords :
            ScoresWith(document_keywords, arg.s)[i] = CaseInsensitiveScore(document_keywords[i], arg.s)

(***************************************************************************)
(* Date tokens that do not parse                                           *)
(***************************************************************************)
\* tokens a date pattern locates that name no calendar date
MalformedTokens ==
    {"13/45/2030", "02/30/2030", "00/10/2030", "12/00/2030", "04/31/2030", "31-04-30",
     "31 FEB 2030", "31 APR 2030", "FEB 30, 2030", "SEP 31, 2030"}

\* documents with a number and one labelled date: the declared type, the
\* label, the field the date goes to and the field the number goes to
LabelledDocuments ==
    {[type |-> "passport", head |-> "PASSPORT No: X12345678", label |-> "Date of Expiry: ",
      field |-> "expiry_date", other |-> "passport_number", value |-> "X12345678"],
     [type |-> "visa", head |-> "VISA Type: H-1B", label |-> "Expiration Date: ",
      field |-> "expiry_date", other |-> "visa_type", value |-> "H-1B"],
     [type |-> "i94", head |-> "I-94 Number: 12345678901", label |-> "Admit Until Date: ",
      field |-> "admit_until_date", other |-> "i94_number", value |-> "12345678901"],
     [type |-> "ead", head |-> "EAD (C09) 123-456-789", label |-> "Card Expires: ",
      field |-> "expiry_date", other |-> "uscis_number", value |-> "123-456-789"],
     [type |-> "i797", head |-> "Receipt Number: WAC1234567890", label |-> "Valid to: ",
      field |-> "validity_to", other |-> "receipt_number", value |-> "WAC1234567890"]}

\* vision answers with a number and one date that is not in ISO format
MalformedAnswers ==
    {"05/05/2030", "2030-13-45", "2030-02-30", "May 5, 2030"}

TokenInputs ==
    {[function |-> "extract_from_file", type |-> d.type, field |-> d.field, token |-> t,
      other |-> d.other, value |-> d.value,
      file |-> Image("image/png", Str(d.head \o "\n" \o d.label \o t))] :
        d \in LabelledDocuments, t \in MalformedTokens}
    \cup {[function |-> "_parse_ai_response", field |-> date_fields[i], token |-> t,
           other |-> "document_number", value |-> "D1",
           data |-> [k \in {date_fields[i], "document_number"} |->
                        IF k = "document_number" THEN Str("D1") ELSE Str(t)]] :
            i \in DOMAIN date_fields, t \in MalformedAnswers}

InitTokens == FunctionInit(TokenInputs)

\* extract_from_file(file_content, file_type, document_type_hint)
ExtractFromFileHintedCall ==
    /\ arg.function = "extract_from_file"
    /\ Apply("extract_from_file",
             Call("extract_from_file", <<document_keywords, arg.file, Str(arg.type)>>))

ParseAiResponseCall ==
    /\ arg.function = "_parse_ai_response"
    /\ Apply("_parse_ai_response", Call("_parse_ai_response", <<arg.data>>))

NextTokens == ExtractFromFileHintedCall \/ ParseAiResponseCall

SpecTokens == InitTokens /\ [][NextTokens]_vars

\* C23: when a located date token does not parse, in regex extraction or in
\* a vision answer, the field stays unset, a warning that names the field or
\* the token is on the record, and the other field is extracted all the same.
C23_MalformedDateWarned ==
    op \in {"extract_from_file", "_parse_ai_response"} =>
        /\ ret[arg.field] = None
        /\ \E w \in DOMAIN ret["warnings"].items :
              \/ StrContains(ret["warnings"].items[w], arg.field)
              \/ StrContains(ret["warnings"].items[w], arg.token)
        /\ ret[arg.other] = Str(arg.value)

(***************************************************************************)
(* _merge_results and the objects it is given                              *)
(***************************************************************************)
\* the two records of a merge input, as objects
MergeObjects ==
    {[base_result |-> [ExtractedData EXCEPT ![i.field] = i.base_value],
      ai_result |-> [ExtractedData EXCEPT ![i.field] = i.ai_value]] : i \in MergeInputs}

InitObjects == FunctionInit(MergeObjects)

\* _merge_results(base_result, ai_result); arg holds the two argument
\* objects.  merged is bound to the object ai_result, so every setattr on
\* merged, the warnings.extend and the extracted_text assignment act on the
\* object ai_result, which is also the object returned
MergeResultsInPlace ==
    /\ op = "init"
    /\ op' = "_merge_results"
    /\ ret' = Call("_merge_results", <<arg.base_result, arg.ai_result>>)
    /\ arg' = [arg EXCEPT !.ai_result = ret']
    /\ UNCHANGED <<document_keywords, memo, ai_client, profile, documents, storage,
                   uploads, requests, auth_vars>>

NextObjects == MergeResultsInPlace

SpecObjects == InitObjects /\ [][NextObjects]_vars

\* C24: _merge_results modifies neither of its inputs: after the call the
\* regex-based record and the vision-based record hold the field values and
\* warnings they held before it.
C24_MergeLeavesInputs ==
    [][op' = "_merge_results" => arg' = arg]_vars

(***************************************************************************)
(* _extract_name at the length limits                                      *)
(***************************************************************************)
\* n capital letters
Capitals(n) == Join([i \in 1..n |-> "A"], 1, n)

\* the lengths of the names, around both limits
NameLengths == {2, 3, 4, 5, 50, 98, 99, 100, 101, 102}

\* a name of n characters as a document prints it: one word, two words, or
\* two words set apart by three blanks, with the name as it reads once the
\* blanks are collapsed
PrintedNames(n) ==
    {[printed |-> Capitals(n), name |-> Capitals(n)]}
    \cup (IF n < 4 THEN {}
          ELSE {[printed |-> "AB" \o gap \o Capitals(n - 3), name |-> "AB " \o Capitals(n - 3)] :
                    gap \in {" ", "   ", " \n "}})

NameLabels == {"Name: ", "Surname: ", "Given Name:  ", "Family name\n"}

NameInputs ==
    UNION {{[text |-> label \o p.printed, name |-> p.name] :
                p \in PrintedNames(n), label \in NameLabels} : n \in NameLengths}

InitNames == FunctionInit(NameInputs)

ExtractNameCall == Apply("_extract_name", Call("_extract_name", <<arg.text>>))

NextNames == ExtractNameCall

SpecNames == InitNames /\ [][NextNames]_vars

\* C25: _extract_name returns a matched name whose length, blanks collapsed,
\* is 4 to 100, and rejects one that is shorter than 4 or longer than 100.
C25_NameLengthLimits ==
    op = "_extract_name" =>
        ret = IF Len(arg.name) >= 4 /\ Len(arg.name) <= 100 THEN Str(arg.name) ELSE None

(***************************************************************************)
(* _update_profile_from_document on its own                                *)
(***************************************************************************)
\* the values a profile column holds, and the values profile_updates
\* brings for it (dates arrive as ISO strings, well-formed or not)
StoredValues(field) ==
    IF field = "current_priority_dates"
    THEN {[t |-> "json", entries |-> [general |-> [date |-> Str("2019-01-01"), source_document |-> "i797"]]]}
    ELSE IF IsDateNamed(field) THEN {MakeDate(2025, 1, 1), MakeDate(2026, 1, 1)}
    ELSE {Str("A"), Str("B")}

UpdateValues(field) ==
    IF IsDateNamed(field) THEN {None, Str("2025-01-01"), Str("2026-01-01"), Str("soon")}
    ELSE {None, Str("A"), Str("B"), Str("")}

\* a profile with every column set
FullProfile == [field \in ProfileFields |-> CHOOSE v \in StoredValues(field) : TRUE]

\* the columns profile_updates can name
ReconciledFields == ProfileFields \ {"current_priority_dates"}

\* the validated mapping of a plain document, of an I-94 whose metadata
\* name its type, and of an I-797 with a pending priority-date update
ReconcileDocuments ==
    {EmptyMapping,
     [EmptyMapping EXCEPT !.document_metadata = [document_type |-> Str("i94")]],
     [EmptyMapping EXCEPT !.extras = [priority_date_update |->
                                        [date |-> Str("2020-01-15"), document_type |-> "i797"]]]}

\* a profile, and a mapping that has an entry for at most one column
ReconcileInputs ==
    UNION {{[field |-> f,
             current |-> [base EXCEPT ![f] = c],
             validated_data |-> [d EXCEPT !.profile_updates = u]] :
                base \in {EmptyProfile, FullProfile},
                c \in {None} \cup StoredValues(f),
                u \in {EmptyDict} \cup {DictSet(EmptyDict, f, v) : v \in UpdateValues(f)},
                d \in ReconcileDocuments} : f \in ReconciledFields}

InitReconcile == FunctionInit(ReconcileInputs)

UpdateProfileFromDocumentCall ==
    Apply("_update_profile_from_document",
          Call("_update_profile_from_document",
               <<arg.current, arg.validated_data.profile_updates, arg.validated_data>>))

NextReconcile == UpdateProfileFromDocumentCall

SpecReconcile == InitReconcile /\ [][NextReconcile]_vars

\* the columns the overwrite rules name: the I-94 columns, the *_expiry_date
\* columns and the identity columns
RuledFields ==
    {"most_recent_entry_date", "most_recent_i94_number"} \cup ExpiryFields \cup IdentityFields

PageOfLength(n) ==
    IF n < 50 THEN SubSeq(PassportText, 1, n) ELSE PassportText \o "\n" \o Capitals(n - 50)

\* what extract_text gives for a page: a text below, at and above the
\* limit, blanks that strip away, or a failure
PageTexts ==
    {Raised, Str(""), Str(PageOfLength(49)), Str(PageOfLength(99)), Str(PageOfLength(100)),
     Str(PageOfLength(120)), Str("   " \o PageOfLength(96) \o "   ")}

\* PDFs of one and of two pages; OCR of their pages reads the EAD text or fails
PdfInputs ==
    {[file |-> Pdf([t |-> "pages", items |-> pages], ocr), hint |-> hint] :
        pages \in {<<p>> : p \in PageTexts} \cup {<<p, q>> : p, q \in PageTexts},
        ocr \in {Str(EadText), Raised},
        hint \in {None, Str("passport")}}

InitPdfs == FunctionInit(PdfInputs)

ExtractFromPdfCall ==
    Apply("extract_from_file", Call("extract_from_file", <<document_keywords, arg.file, arg.hint>>))

NextPdfs == ExtractFromPdfCall

SpecPdfs == InitPdfs /\ [][NextPdfs]_vars

\* extract_text raised for a page of the file
LayerRaised(file) ==
    \E i \in DOMAIN file.text_layer.items : file.text_layer.items[i] = Raised

\* the result is the one extract_from_file gives for an exception
ExtractionError(result) ==
    \E w \in DOMAIN result["warnings"].items :
        StrContains(result["warnings"].items[w], "Extraction error")

\* the result shows that the OCR fallback was taken: it holds the OCR text,
\* or the error of the OCR that failed
FallbackTaken(file, result) ==
    IF file.ocr = Raised THEN ExtractionError(result)
    ELSE result["extracted_text"] = file.ocr

\* C27: for a PDF the OCR fallback is taken exactly when the stripped text
\* of the text layer is shorter than 100 characters, which is so whenever
\* the text-layer extraction raised; that failure alone never gives an
\* extraction-error result.
C27_PdfFallback ==
    op = "extract_from_file" =>
        /\ FallbackTaken(arg.file, ret) <=> Len(StrStrip(LayerText(arg.file))) < 100
        /\ LayerRaised(arg.file) => FallbackTaken(arg.file, ret)
        /\ (LayerRaised(arg.file) /\ arg.file.ocr # Raised) => ~ExtractionError(ret)

(***************************************************************************)
(* The declared document type as hint                                      *)
(***************************************************************************)
\* the document_type of the vision result of the upload that returned
VisionDocumentType ==
    IF arg.vision = NotCalled THEN None
    ELSE Call("_extract_with_vision", <<arg.vision>>)["document_type"]

\* C28: with a hint, the regex-based record of a file whose text was
\* acquired has the hint as document_type, whatever the text holds, and the
\* document is stored with the vision result's document_type when that is
\* non-empty and with the hint otherwise.
C28_HintIsTheType ==
    /\ (requests[1].pc = "vision" /\ ~ExtractionError(requests[1].base_result))
          => requests[1].base_result["document_type"] = Str(requests[1].sample.document_type)
    /\ (Uploaded /\ arg.vision = NotCalled /\ ~ExtractionError(ret.extracted_data))
          => ret.extracted_data["document_type"] = Str(arg.sample.document_type)
    /\ Uploaded
          => ret.document.document_type =
                IF Truthy(VisionDocumentType) THEN VisionDocumentType
                ELSE Str(arg.sample.document_type)

\* a passport image declared as a birth certificate, answered by the vision
\* model without a type, is stored as a birth certificate
C28_Witness ==
    /\ Uploaded
    /\ arg.sample.document_type = "birth_certificate"
    /\ arg.sample.file.ocr = Str(PassportText)
    /\ arg.vision \notin {NotCalled, Raised}
    /\ ret.extracted_data["passport_number"] # None
    /\ ret.document.document_type = Str("birth_certificate")

(***************************************************************************)
(* Google OAuth: the state token                                           *)
(***************************************************************************)
\* StateStorage._expiry_time, in minutes
expiry_time == 5

\* the state tokens generate_state can draw, and the minutes the clock runs
MaxStates == 2

MaxMinutes == 6

\* how often one token is presented
MaxPresented == 2

States == 1..MaxStates

\* StateStorage.__init__: self._storage
NewStateStorage == EmptyDict

\* StateStorage.generate_state when the token drawn is state: _storage
\* afterwards
GenerateState(storage_dict, state, now) == DictSet(storage_dict, state, now)

\* StateStorage.validate_state(state): the value returned and _storage
\* afterwards
ValidateState(storage_dict, state, now) ==
    IF ~HasKey(storage_dict, state) THEN [valid |-> FALSE, storage_dict |-> storage_dict]
    ELSE IF now - storage_dict[state] > expiry_time
         THEN [valid |-> FALSE, storage_dict |-> DictDel(storage_dict, state)]
    ELSE [valid |-> TRUE, storage_dict |-> DictDel(storage_dict, state)]

\* GoogleAuthService.authenticate_with_google(code, state) of a service just
\* constructed, up to the code exchange
AuthenticateWithGoogle(state, now) ==
    IF ~ValidateState(NewStateStorage, state, now).valid
    THEN [status |-> 400, detail |-> "Invalid state parameter", exchange |-> FALSE]
    ELSE [status |-> 200, detail |-> "", exchange |-> TRUE]

\* the answer of google_callback(code, state): each GoogleAuthService(db)
\* it constructs has a StateStorage of its own
GoogleCallbackAnswer(state, now) ==
    IF ~ValidateState(NewStateStorage, state, now).valid
    THEN [status |-> 400, detail |-> "Invalid state parameter", exchange |-> FALSE]
    ELSE AuthenticateWithGoogle(state, now)

pipeline_vars ==
    <<document_keywords, memo, ai_client, profile, documents, storage, uploads, requests>>

\* GET /google/url: get_google_auth_url of a service constructed for the
\* request draws a token and returns it; the service and its StateStorage,
\* which holds the token, end with the request
GoogleAuthUrl(state) ==
    /\ state \notin DOMAIN issued
    /\ LET storage_dict == GenerateState(NewStateStorage, state, utcnow)
       IN  /\ op' = "get_google_auth_url"
           /\ arg' = None
           /\ ret' = [state |-> state, stored |-> HasKey(storage_dict, state)]
    /\ issued' = DictSet(issued, state, [at |-> utcnow, presented |-> 0])
    /\ UNCHANGED <<pipeline_vars, utcnow>>

\* /google/callback with `state`, a token handed out before or not
GoogleCallback(state) ==
    /\ state \in DOMAIN issued => issued[state].presented < MaxPresented
    /\ op' = "google_callback"
    /\ arg' = [state |-> state]
    /\ ret' = GoogleCallbackAnswer(state, utcnow)
    /\ issued' = IF state \in DOMAIN issued
                 THEN [issued EXCEPT ![state].presented = @ + 1] ELSE issued
    /\ UNCHANGED <<pipeline_vars, utcnow>>

\* a minute passes
Tick ==
    /\ utcnow < MaxMinutes
    /\ utcnow' = utcnow + 1
    /\ UNCHANGED <<pipeline_vars, op, arg, ret, issued>>

InitAuth == Init /\ ai_client = "none"

NextAuth ==
    \/ \E state \in States : GoogleAuthUrl(state)
    \/ \E state \in States : GoogleCallback(state)
    \/ Tick

SpecAuth == InitAuth /\ [][NextAuth]_vars

\* C30: a state token that get_google_auth_url handed out and that is
\* presented to google_callback within five minutes passes the state
\* validation through to the code exchange the first time it is presented,
\* and is rejected every later time.
C30_StateAcceptedOnce ==
    (/\ op = "google_callback"
     /\ arg.state \in DOMAIN issued
     /\ utcnow - issued[arg.state].at <= expiry_time)
        => (ret.exchange <=> issued[arg.state].presented = 1)

====
